---- MODULE Spec2Model ----
(***************************************************************************)
(* Folder Organizer (src/file_organizer.py): the planning / execution /    *)
(* journaling engine (FileOrganizer, BackupManager) and the part of       *)
(* FileOrganizerApp that drives it, over an explicit model of the file     *)
(* system.                                                                 *)
(*                                                                         *)
(* A file name is a record [stem, ext] as pathlib splits it (Path.stem,    *)
(* Path.suffix); a path is the sequence of the names of its segments,      *)
(* absolute, so the source root is a proper prefix of everything under it. *)
(* A time stamp is a month index, year * 12 + (month - 1).                 *)
(***************************************************************************)
EXTENDS Integers, Sequences, FiniteSets, TLC

(***************************************************************************)
(* Bounds of the model                                                     *)
(***************************************************************************)
\* the most files an initial tree holds
MaxFiles == 2
\* the most OS-level failures the environment injects in one behaviour
MaxFaults == 1
\* the most external deletions between an organize run and a restore
MaxExternal == 1
\* the most organize batches dispatched in one behaviour
MaxBatches == 1
\* the most previews started in one behaviour
MaxPreviews == 1
\* the most restores started in one behaviour
MaxRestores == 1
\* the latest second the clock reaches
MaxClock == 1
\* the highest number N of a name report_N.pdf a directory starts with
MaxTaken == 6
\* the year datetime.now() reports
NowYear == 2026

(***************************************************************************)
(* Program constants                                                       *)
(***************************************************************************)
MAX_PATH_LENGTH == 260
MinYear == 1980
MaxAttempts == 10000

BY_TYPE == "type"
BY_DATE == "date"
BY_BOTH == "both"
SortMode == {BY_TYPE, BY_DATE, BY_BOTH}

\* os.name
Platforms == {"nt", "posix"}
\* the year of time 0 of st_ctime and st_mtime
EpochYear == 1970

ALREADY_ORGANIZED == "Already in organized structure"
PERMISSION_DENIED == "Permission denied"
FILE_IN_USE == "File is in use"
SYSTEM_FILE == "System file"
HIDDEN_FILE == "Hidden file (excluded)"
SYMLINK == "Symlink/shortcut (excluded)"
PATH_TOO_LONG == "Destination path too long"
MOVE_ERROR == "Error during move"

\* the part of the extension table the model's names reach
EXTENSION_CATEGORIES ==
  [e \in {".jpg", ".png", ".pdf", ".txt", ".gz", ".py", ".lnk"} |->
     CASE e \in {".jpg", ".png"} -> "Images"
       [] e \in {".pdf", ".txt"} -> "Documents"
       [] e = ".gz" -> "Archives"
       [] e = ".py" -> "Code"
       [] OTHER -> "Other"]

AllCategories ==
  {"Images", "Documents", "Videos", "Audio", "Archives", "Code",
   "Executables", "Fonts"}

COMPOUND_EXTENSIONS == {".tar.gz", ".tar.bz2", ".tar.xz", ".tar.zst"}

MONTH_NAMES ==
  [m \in 1..12 |->
     CASE m = 1 -> "01-January" [] m = 2 -> "02-February"
       [] m = 3 -> "03-March" [] m = 4 -> "04-April"
       [] m = 5 -> "05-May" [] m = 6 -> "06-June"
       [] m = 7 -> "07-July" [] m = 8 -> "08-August"
       [] m = 9 -> "09-September" [] m = 10 -> "10-October"
       [] m = 11 -> "11-November" [] OTHER -> "12-December"]

MonthNameSet == {MONTH_NAMES[m] : m \in 1..12}

(***************************************************************************)
(* Names and paths                                                         *)
(***************************************************************************)
\* dot: the name starts with '.'
Name(stem, ext) == [stem |-> stem, ext |-> ext, dot |-> FALSE]
DotName(stem, ext) == [stem |-> stem, ext |-> ext, dot |-> TRUE]
Dir(s) == Name(s, "")
\* str(name)
NameStr(n) == n.stem \o n.ext

\* the configured source folder, FileOrganizer.source_folder
source_folder == <<Dir("C:"), Dir("Downloads")>>

Parent(p) == SubSeq(p, 1, Len(p) - 1)
Last(p) == p[Len(p)]
Child(p, n) == Append(p, n)
IsPrefix(a, b) == Len(a) <= Len(b) /\ SubSeq(b, 1, Len(a)) = a
IsInside(root, p) == Len(root) < Len(p) /\ IsPrefix(root, p)

RECURSIVE PathLen(_)
\* len(str(path)): the segments joined by one separator each
PathLen(p) ==
  IF Len(p) = 0 THEN 0
  ELSE IF Len(p) = 1 THEN Len(NameStr(p[1]))
  ELSE PathLen(Parent(p)) + 1 + Len(NameStr(Last(p)))

(***************************************************************************)
(* State                                                                   *)
(***************************************************************************)
VARIABLES
  files,                \* the file system: path of each file |-> file id
  dirs,                 \* the file system: paths of the directories
  sort_mode,            \* FileOrganizerApp.sort_mode (the selected mode)
  options,              \* the option check boxes, as a ScanOptions record
  organizer,            \* FileOrganizerApp.organizer: [mode, options] or NoOrganizer
  cancel_requested,     \* FileOrganizer._cancel_requested of that organizer
  planned_moves,        \* FileOrganizerApp.planned_moves
  planned_folder_moves, \* FileOrganizerApp.planned_folder_moves
  skipped_files,        \* FileOrganizerApp.skipped_files
  is_processing,        \* FileOrganizerApp.is_processing
  pc,                   \* where the running operation stands
  work,                 \* the locals of the running scan_files / execute_moves / execute_restore
  result,               \* the OrganizeResult of the running batch or restore
  backups,              \* BACKUP_DIR: journal file name |-> journal
  clock,                \* the wall clock, in seconds
  platform,             \* os.name of the interpreter that runs the program
  hist                  \* history: what the claims refer to and the code does not keep

vars ==
  <<files, dirs, sort_mode, options, organizer, cancel_requested, planned_moves,
    planned_folder_moves, skipped_files, is_processing, pc, work, result,
    backups, clock, platform, hist>>

(***************************************************************************)
(* The file system                                                         *)
(***************************************************************************)
IsFile(fs, p) == p \in DOMAIN fs
IsDirIn(ds, p) == p \in ds \/ IsPrefix(p, source_folder)
\* Path.exists()
PathExists(fs, ds, p) == IsFile(fs, p) \/ IsDirIn(ds, p)

Prefixes(p) == {SubSeq(p, 1, k) : k \in 1..Len(p)}
\* Path.mkdir(parents=True, exist_ok=True) raises when a segment is a file
MkdirFails(fs, d) == \E q \in Prefixes(d) : IsFile(fs, q)
MkdirP(ds, d) == ds \cup {q \in Prefixes(d) : ~IsPrefix(q, source_folder)}

\* shutil.move of a file onto a free path
MoveFile(fs, src, dst) ==
  [p \in (DOMAIN fs \ {src}) \cup {dst} |-> IF p = dst THEN fs[src] ELSE fs[p]]

Rebase(p, src, dst) == dst \o SubSeq(p, Len(src) + 1, Len(p))
\* shutil.move of a directory onto a free path: the files under it
MoveTreeFiles(fs, src, dst) ==
  LET moved == {p \in DOMAIN fs : IsPrefix(src, p)}
      back(q) == CHOOSE p \in moved : Rebase(p, src, dst) = q
  IN [q \in (DOMAIN fs \ moved) \cup {Rebase(p, src, dst) : p \in moved} |->
        IF q \in DOMAIN fs \ moved THEN fs[q] ELSE fs[back(q)]]
\* ... and the directories under it
MoveTreeDirs(ds, src, dst) ==
  LET moved == {p \in ds : IsPrefix(src, p)}
  IN (ds \ moved) \cup {Rebase(p, src, dst) : p \in moved}

(***************************************************************************)
(* The files of the initial trees: Init draws a tree from them             *)
(***************************************************************************)
Ts(year, month) == year * 12 + (month - 1)

RECURSIVE Rep(_, _)
\* the string c * n, built by halves
Rep(c, n) ==
  IF n = 0 THEN ""
  ELSE LET half == Rep(c, n \div 2)
       IN IF n % 2 = 0 THEN half \o half ELSE half \o half \o c

\* the stem of a .txt file at the source folder whose destination by type,
\* source_folder/Documents/stem.txt, is as long as check_path_length allows
CeilingStem ==
  Rep("x", MAX_PATH_LENGTH
             - PathLen(Child(Child(source_folder, Dir("Documents")), Name("", ".txt"))))

\* path, st_ctime, st_mtime and Windows attributes of each file; raw_name
\* marks a file whose name is no text: it holds a byte that is not UTF-8
\* (posix) or an unpaired surrogate (nt), which str(path) keeps as a lone
\* surrogate
Cand ==
  [id \in 1..10 |->
     CASE id = 1 -> [path |-> Child(source_folder, Name("a", ".txt")),
                     ctime |-> Ts(2024, 3), mtime |-> Ts(2024, 1), attrs |-> {}]
       [] id = 2 -> [path |-> Child(source_folder, Name("Documents", "")),
                     ctime |-> Ts(2023, 5), mtime |-> Ts(2023, 5), attrs |-> {}]
       [] id = 3 -> [path |-> Child(Child(source_folder, Dir("sub")), Name("a", ".txt")),
                     ctime |-> Ts(2024, 1), mtime |-> Ts(2024, 2), attrs |-> {}]
       [] id = 4 -> [path |-> Child(Child(source_folder, Dir("Documents")), Name("a", ".txt")),
                     ctime |-> Ts(2024, 1), mtime |-> Ts(2024, 1), attrs |-> {}]
       [] id = 5 -> [path |-> Child(source_folder, Name("old", ".pdf")),
                     ctime |-> Ts(1601, 1), mtime |-> Ts(1601, 1), attrs |-> {}]
       [] id = 6 -> [path |-> Child(source_folder, DotName(".cfg", "")),
                     ctime |-> Ts(2024, 1), mtime |-> Ts(2024, 1), attrs |-> {}]
       [] id = 7 -> [path |-> Child(source_folder, Name("boot", ".py")),
                     ctime |-> Ts(1601, 1), mtime |-> Ts(2025, 12), attrs |-> {"system"}]
       [] id = 8 -> [path |-> Child(source_folder, Name(CeilingStem, ".txt")),
                     ctime |-> Ts(2024, 1), mtime |-> Ts(2024, 1), attrs |-> {}]
       [] id = 9 -> [path |-> Child(source_folder, Name(CeilingStem \o "x", ".txt")),
                     ctime |-> Ts(2024, 1), mtime |-> Ts(2024, 1), attrs |-> {}]
       [] OTHER -> [path |-> Child(source_folder, Name("caf", ".txt")),
                    ctime |-> Ts(2024, 1), mtime |-> Ts(2024, 1),
                    attrs |-> {"raw_name"}]]

\* the files with the long names
LongIds == {8, 9}
\* the file whose name is no text
RawIds == {10}
FileIds == DOMAIN Cand \ (LongIds \cup RawIds)

\* st_ctime and st_mtime of the directories the trees hold, by name
FolderTimes(n) ==
  IF n.stem = "sub" THEN [ctime |-> Ts(2024, 6), mtime |-> Ts(2024, 7)]
  ELSE [ctime |-> Ts(NowYear, 1), mtime |-> Ts(NowYear, 1)]

\* a tree holds no file where another of its files needs a directory
Consistent(S) ==
  \A i \in S : \A j \in S : i # j => ~IsPrefix(Cand[i].path, Cand[j].path)

Trees == {S \in SUBSET FileIds : Cardinality(S) \in 1..MaxFiles /\ Consistent(S)}
\* the trees that hold a file with a long name
LongTrees ==
  {S \in SUBSET (FileIds \cup LongIds) :
     Cardinality(S) \in 1..MaxFiles /\ Consistent(S) /\ S \cap LongIds # {}}
\* the trees that hold the file whose name is no text
RawTrees ==
  {S \in SUBSET (FileIds \cup RawIds) :
     Cardinality(S) \in 1..MaxFiles /\ Consistent(S) /\ S \cap RawIds # {}}

TreeFiles(S) ==
  [p \in {Cand[i].path : i \in S} |-> CHOOSE i \in S : Cand[i].path = p]
TreeDirs(S) ==
  UNION {{q \in Prefixes(Parent(Cand[i].path)) : ~IsPrefix(q, source_folder)} : i \in S}

(***************************************************************************)
(* Classifier                                                              *)
(***************************************************************************)
\* str.lower() on the extensions of the model
Lower(e) == IF e = ".TXT" THEN ".txt" ELSE IF e = ".LNK" THEN ".lnk" ELSE e

\* the stems of the model that end with ".tar" (a numbered stem never does)
TarStems == {"src.tar"}

\* get_compound_extension: the name ends with a compound extension
get_compound_extension(n) ==
  IF n.stem \in TarStems /\ (".tar" \o Lower(n.ext)) \in COMPOUND_EXTENSIONS
  THEN ".tar" \o Lower(n.ext) ELSE ""

get_category(n) ==
  IF get_compound_extension(n) # "" THEN "Archives"
  ELSE IF Lower(n.ext) = "" THEN "No Extension"
  ELSE IF Lower(n.ext) \in DOMAIN EXTENSION_CATEGORIES
       THEN EXTENSION_CATEGORIES[Lower(n.ext)]
  ELSE "Other"

Min(a, b) == IF a <= b THEN a ELSE b
YearOf(t) == t \div 12
MonthOf(t) == (t % 12) + 1
SaneYear(y) == ~(y < MinYear \/ y > NowYear + 1)
NoDate == [valid |-> FALSE, year |-> 0, month |-> 0]
DateOf(t) == [valid |-> TRUE, year |-> YearOf(t), month |-> MonthOf(t)]

\* datetime.fromtimestamp raises OSError: the C localtime of the Windows
\* runtime refuses a time before the epoch
FromTimestampFails(os, t) == os = "nt" /\ YearOf(t) < EpochYear

\* get_file_date, from st_ctime and st_mtime; (None, False) when a
\* conversion raises
get_file_date_on(os, ctime, mtime) ==
  IF FromTimestampFails(os, Min(ctime, mtime)) THEN NoDate
  ELSE IF SaneYear(YearOf(Min(ctime, mtime))) THEN DateOf(Min(ctime, mtime))
  ELSE IF FromTimestampFails(os, mtime) THEN NoDate
  ELSE IF SaneYear(YearOf(mtime)) THEN DateOf(mtime)
  ELSE NoDate

get_file_date(ctime, mtime) == get_file_date_on(platform, ctime, mtime)

\* get_folder_date: no retry with the modification time alone
get_folder_date(ctime, mtime) ==
  IF FromTimestampFails(platform, Min(ctime, mtime)) THEN NoDate
  ELSE IF SaneYear(YearOf(Min(ctime, mtime))) THEN DateOf(Min(ctime, mtime))
  ELSE NoDate

(***************************************************************************)
(* Destination planner                                                     *)
(***************************************************************************)
\* the month folder named by the number of the month alone
MonthSegNumber(d) ==
  IF d.valid THEN Dir(ToString(d.month)) ELSE Dir("Unknown")

YearSeg(d) == IF d.valid THEN Dir(ToString(d.year)) ELSE Dir("Unknown")
MonthSeg(d) == IF d.valid THEN Dir(MONTH_NAMES[d.month]) ELSE Dir("Unknown")

\* the destination joined without the source folder
get_destination_path_relative(mode, file_path, d) ==
  IF mode = BY_TYPE
  THEN <<Dir(get_category(Last(file_path))), Last(file_path)>>
  ELSE IF mode = BY_DATE
  THEN <<YearSeg(d), MonthSeg(d), Last(file_path)>>
  ELSE <<Dir(get_category(Last(file_path))), YearSeg(d), MonthSeg(d), Last(file_path)>>

get_destination_path(mode, file_path, d) ==
  IF mode = BY_TYPE
  THEN source_folder \o <<Dir(get_category(Last(file_path))), Last(file_path)>>
  ELSE IF mode = BY_DATE
  THEN source_folder \o <<YearSeg(d), MonthSeg(d), Last(file_path)>>
  ELSE source_folder \o
         <<Dir(get_category(Last(file_path))), YearSeg(d), MonthSeg(d), Last(file_path)>>

get_folder_destination(folder_path, d) ==
  source_folder \o <<YearSeg(d), MonthSeg(d), Last(folder_path)>>

\* the ceiling itself counted as too long
check_path_length_exclusive(dest_path) == PathLen(dest_path) < MAX_PATH_LENGTH

check_path_length(dest_path) == PathLen(dest_path) <= MAX_PATH_LENGTH

\* f"{stem}_{counter}{suffix}"
Numbered(n, counter) ==
  [stem |-> n.stem \o "_" \o ToString(counter), ext |-> n.ext,
   dot |-> n.dot]

NoPath == <<>>

\* new_path of the loop of get_unique_destination
NumberedPath(dest_path, counter) ==
  Child(Parent(dest_path), Numbered(Last(dest_path), counter))

\* the loop giving up one name early
UniqueFromShort(fs, ds, dest_path, counter) ==
  IF \E N \in counter..(MaxAttempts - 1) :
       ~PathExists(fs, ds, NumberedPath(dest_path, N))
  THEN NumberedPath(dest_path,
         CHOOSE N \in counter..(MaxAttempts - 1) :
           /\ ~PathExists(fs, ds, NumberedPath(dest_path, N))
           /\ \A k \in counter..(N - 1) :
                PathExists(fs, ds, NumberedPath(dest_path, k)))
  ELSE NoPath

\* the while loop of get_unique_destination, from the counter on: the names
\* numbered counter, counter + 1, .. are tried in turn up to the one numbered
\* MaxAttempts and the first free one is returned; NoPath stands for the
\* RuntimeError raised when none of them is free
UniqueFrom(fs, ds, dest_path, counter) ==
  IF \E N \in counter..MaxAttempts :
       ~PathExists(fs, ds, NumberedPath(dest_path, N))
  THEN NumberedPath(dest_path,
         CHOOSE N \in counter..MaxAttempts :
           /\ ~PathExists(fs, ds, NumberedPath(dest_path, N))
           /\ \A k \in counter..(N - 1) :
                PathExists(fs, ds, NumberedPath(dest_path, k)))
  ELSE NoPath

\* the counter started at 2
get_unique_destination_from_2(fs, ds, dest_path) ==
  IF ~PathExists(fs, ds, dest_path) THEN dest_path
  ELSE UniqueFrom(fs, ds, dest_path, 2)

\* the candidate returned whether it is free or taken
get_unique_destination_taken(fs, ds, dest_path) == dest_path

get_unique_destination(fs, ds, dest_path) ==
  IF ~PathExists(fs, ds, dest_path) THEN dest_path
  ELSE UniqueFrom(fs, ds, dest_path, 1)

\* f"{name}_{counter}" of a folder: the number follows the whole name
NumberedFolder(n, counter) ==
  IF n.ext = ""
  THEN [stem |-> n.stem \o "_" \o ToString(counter), ext |-> "",
        dot |-> n.dot]
  ELSE [stem |-> n.stem, ext |-> n.ext \o "_" \o ToString(counter),
        dot |-> n.dot]

\* the while loop of execute_moves over folder names, from the counter on:
\* once the name numbered N is formed the counter is N + 1 and is compared
\* with the limit before the loop tests whether that name is free, so the
\* names up to MaxAttempts - 1 can be returned; NoPath stands for the
\* RuntimeError
UniqueFolderFrom(fs, ds, parent, n, counter) ==
  IF \E N \in counter..(MaxAttempts - 1) :
       ~PathExists(fs, ds, Child(parent, NumberedFolder(n, N)))
  THEN Child(parent, NumberedFolder(n,
         CHOOSE N \in counter..(MaxAttempts - 1) :
           /\ ~PathExists(fs, ds, Child(parent, NumberedFolder(n, N)))
           /\ \A k \in counter..(N - 1) :
                PathExists(fs, ds, Child(parent, NumberedFolder(n, k)))))
  ELSE NoPath

unique_folder_destination(fs, ds, destination, source_name) ==
  IF ~PathExists(fs, ds, destination) THEN destination
  ELSE UniqueFolderFrom(fs, ds, Parent(destination), source_name, 1)

\* is_in_correct_location: both paths resolve to the same location
is_in_correct_location(file_path, dest_path) == file_path = dest_path

valid_categories == AllCategories \cup {"Other", "No Extension"}
FourDigits == {ToString(y) : y \in 1000..9999}
IsPlain(n) == n.ext = "" /\ ~n.dot
IsCategoryName(n) == IsPlain(n) /\ n.stem \in valid_categories
\* year.isdigit() and len(year) == 4, or "Unknown"
IsYearName(n) == IsPlain(n) /\ (n.stem \in FourDigits \/ n.stem = "Unknown")
IsMonthName(n) == IsPlain(n) /\ (n.stem \in MonthNameSet \/ n.stem = "Unknown")

is_in_organized_structure(mode, file_path) ==
  IF ~IsPrefix(source_folder, file_path) THEN FALSE
  ELSE LET parts == SubSeq(file_path, Len(source_folder) + 1, Len(file_path))
       IN IF mode = BY_TYPE
          THEN Len(parts) >= 2 /\ IsCategoryName(parts[1])
          ELSE IF mode = BY_DATE
          THEN Len(parts) >= 3 /\ IsYearName(parts[1]) /\ IsMonthName(parts[2])
          ELSE Len(parts) >= 4 /\ IsCategoryName(parts[1])
               /\ IsYearName(parts[2]) /\ IsMonthName(parts[3])

\* _is_organized_folder: by the folder's own name
is_organized_folder(n) ==
  \/ IsPlain(n) /\ n.stem \in valid_categories
  \/ IsPlain(n) /\ n.stem \in FourDigits
  \/ IsPlain(n) /\ (n.stem \in MonthNameSet \/ n.stem = "Unknown")

(***************************************************************************)
(* Accessibility checker                                                   *)
(***************************************************************************)
None == ""
\* GetFileAttributesW: nothing for a path that is no file
AttrsOf(fs, p) == IF IsFile(fs, p) THEN Cand[fs[p]].attrs ELSE {}

is_symlink_or_shortcut(fs, p) ==
  "symlink" \in AttrsOf(fs, p) \/ Lower(Last(p).ext) = ".lnk"
\* GetFileAttributesW is asked on Windows alone
is_hidden_file(fs, p) ==
  Last(p).dot \/ (platform = "nt" /\ "hidden" \in AttrsOf(fs, p))
is_system_file(fs, p) == platform = "nt" /\ "system" \in AttrsOf(fs, p)
\* the file never tried
is_file_locked_untried(fs, p, locked) == FALSE

\* is_file_locked: open(path, 'r+b') fails; it fails too when the file is gone
is_file_locked(fs, p, locked) == ~IsFile(fs, p) \/ locked

check_file_accessibility(opts, fs, p, check_lock, locked) ==
  IF ~opts.include_symlinks /\ is_symlink_or_shortcut(fs, p) THEN SYMLINK
  ELSE IF ~opts.include_hidden /\ is_hidden_file(fs, p) THEN HIDDEN_FILE
  ELSE IF is_system_file(fs, p) THEN SYSTEM_FILE
  ELSE IF check_lock /\ is_file_locked(fs, p, locked) THEN FILE_IN_USE
  ELSE None

(***************************************************************************)
(* Scanner                                                                 *)
(***************************************************************************)
\* _scan_directory_fast: the regular files (no symlinks) it yields
ScannedFiles(fs, directory, recursive) ==
  {p \in DOMAIN fs :
     /\ "symlink" \notin Cand[fs[p]].attrs
     /\ IF recursive THEN IsInside(directory, p) ELSE Parent(p) = directory}

\* _get_root_folders
get_root_folders(ds) ==
  {d \in ds : Parent(d) = source_folder /\ ~is_organized_folder(Last(d))}

\* _count_files_in_folder
count_files_in_folder(fs, folder_path) ==
  Cardinality(ScannedFiles(fs, folder_path, TRUE))

Perms(S) ==
  {f \in [1..Cardinality(S) -> S] : \A i, j \in DOMAIN f : i # j => f[i] # f[j]}

\* os.scandir lists a directory in any order; a recursive walk yields the
\* files below one directory next to each other
WalkOrders(S, ds) ==
  {f \in Perms(S) :
     \A d \in ds : \A i, j, k \in DOMAIN f :
       (i < j /\ j < k /\ IsInside(d, f[i]) /\ IsInside(d, f[k])) => IsInside(d, f[j])}

\* the scanning strategy of scan_files: <<scan_recursive, process_folders>>
\* the strategy without the branch for the type modes with folders
ScanStrategyRecursive(org, folders_detected) ==
  IF org.options.flatten_folders THEN <<TRUE, FALSE>>
  ELSE IF org.options.preserve_folders /\ org.mode = BY_DATE THEN <<FALSE, TRUE>>
  ELSE <<TRUE, FALSE>>

\* the strategy with the branch for preserved folders tried first
ScanStrategyPreserveFirst(org, folders_detected) ==
  IF org.options.preserve_folders /\ org.mode = BY_DATE THEN <<FALSE, TRUE>>
  ELSE IF org.options.flatten_folders THEN <<TRUE, FALSE>>
  ELSE IF folders_detected /\ org.mode # BY_DATE THEN <<FALSE, FALSE>>
  ELSE <<TRUE, FALSE>>

ScanStrategy(org, folders_detected) ==
  IF org.options.flatten_folders THEN <<TRUE, FALSE>>
  ELSE IF org.options.preserve_folders /\ org.mode = BY_DATE THEN <<FALSE, TRUE>>
  ELSE IF folders_detected /\ org.mode # BY_DATE THEN <<FALSE, FALSE>>
  ELSE <<TRUE, FALSE>>

\* one pass of the folder loop of scan_files
ScanFolder(fs, folder_path, folder_moves) ==
  LET t == FolderTimes(Last(folder_path))
      d == get_folder_date(t.ctime, t.mtime)
      dest_path == get_folder_destination(folder_path, d)
  IN IF folder_path = dest_path THEN folder_moves
     ELSE IF ~check_path_length(dest_path) THEN folder_moves
     ELSE Append(folder_moves,
                 [source |-> folder_path, destination |-> dest_path,
                  year |-> d.year, month |-> d.month,
                  file_count |-> count_files_in_folder(fs, folder_path)])

\* the file loop of scan_files without its two early exits for files that
\* are already organized
ScanFileUnrecognized(org, fs, file_path, acc) ==
  LET skip_reason == check_file_accessibility(org.options, fs, file_path, FALSE, FALSE)
      m == Cand[fs[file_path]]
      d == get_file_date(m.ctime, m.mtime)
      dest_path == get_destination_path(org.mode, file_path, d)
  IN IF skip_reason # None
     THEN [acc EXCEPT !.skipped =
             Append(@, [path |-> file_path, reason |-> skip_reason])]
     ELSE IF ~check_path_length(dest_path)
     THEN [acc EXCEPT !.skipped =
             Append(@, [path |-> file_path, reason |-> PATH_TOO_LONG])]
     ELSE [acc EXCEPT !.moves =
             Append(@, [source |-> file_path, destination |-> dest_path,
                        category |-> get_category(Last(file_path)),
                        year |-> d.year, month |-> d.month])]

\* a file that is skipped entered in the plan as well
ScanFileListedTwice(org, fs, file_path, acc) ==
  LET a == ScanFileUnrecognized(org, fs, file_path, acc)
  IN IF a.skipped = acc.skipped THEN a
     ELSE [a EXCEPT !.moves =
             Append(@, [source |-> file_path,
                        destination |-> get_destination_path(org.mode, file_path, NoDate),
                        category |-> get_category(Last(file_path)),
                        year |-> 0, month |-> 0])]

\* one pass of the file loop of scan_files, on acc = [moves, skipped]
ScanFile(org, fs, file_path, acc) ==
  LET skip_reason == check_file_accessibility(org.options, fs, file_path, FALSE, FALSE)
      m == Cand[fs[file_path]]
      d == get_file_date(m.ctime, m.mtime)
      dest_path == get_destination_path(org.mode, file_path, d)
  IN IF is_in_organized_structure(org.mode, file_path) THEN acc
     ELSE IF skip_reason # None
     THEN [acc EXCEPT !.skipped =
             Append(@, [path |-> file_path, reason |-> skip_reason])]
     ELSE IF ~check_path_length(dest_path)
     THEN [acc EXCEPT !.skipped =
             Append(@, [path |-> file_path, reason |-> PATH_TOO_LONG])]
     ELSE IF is_in_correct_location(file_path, dest_path) THEN acc
     ELSE [acc EXCEPT !.moves =
             Append(@, [source |-> file_path, destination |-> dest_path,
                        category |-> get_category(Last(file_path)),
                        year |-> d.year, month |-> d.month])]

RECURSIVE ScanFolders(_, _, _)
ScanFolders(fs, fq, folder_moves) ==
  IF fq = <<>> THEN folder_moves
  ELSE ScanFolders(fs, Tail(fq), ScanFolder(fs, Head(fq), folder_moves))

RECURSIVE ScanFiles(_, _, _, _)
ScanFiles(org, fs, q, acc) ==
  IF q = <<>> THEN acc
  ELSE ScanFiles(org, fs, Tail(q), ScanFile(org, fs, Head(q), acc))

EmptyAcc == [moves |-> <<>>, skipped |-> <<>>]

\* what scan_files starts from: the root folders and the file iterator, each
\* in one of the orders the directory listing may have
ScanStarts(org, fs, ds) ==
  LET root_folders == get_root_folders(ds)
      st == ScanStrategy(org, root_folders # {})
  IN {[fq |-> IF st[2] THEN fo ELSE <<>>, q |-> o,
       folders_detected |-> root_folders # {},
       folder_moves |-> <<>>, acc |-> EmptyAcc] :
        fo \in Perms(root_folders),
        o \in WalkOrders(ScannedFiles(fs, source_folder, st[1]), ds)}

(***************************************************************************)
(* Initial state                                                           *)
(***************************************************************************)
ScanOptions(hidden, symlinks, delete_empty, preserve, flatten) ==
  [include_hidden |-> hidden, include_symlinks |-> symlinks,
   delete_empty_folders |-> delete_empty, preserve_folders |-> preserve,
   flatten_folders |-> flatten]

\* the settings of the option check boxes the model starts from
OptionChoices ==
  {ScanOptions(FALSE, FALSE, FALSE, FALSE, FALSE),
   ScanOptions(TRUE, FALSE, FALSE, FALSE, FALSE),
   ScanOptions(FALSE, FALSE, FALSE, TRUE, FALSE),
   ScanOptions(FALSE, FALSE, TRUE, FALSE, TRUE),
   ScanOptions(FALSE, FALSE, FALSE, TRUE, TRUE)}

NoOrganizer == [mode |-> "none"]
NoWork == [op |-> "none"]

\* OrganizeResult()
NewResult ==
  [moved |-> 0, skipped |-> 0, errors |-> 0, folders_moved |-> 0,
   error_messages |-> <<>>, skipped_files |-> <<>>, move_log |-> <<>>,
   folder_move_log |-> <<>>, cancelled |-> FALSE]

NoRequest == [at |-> -1, mid |-> FALSE]

\* what is remembered of a behaviour for the statements below: the tree at
\* the start of the batch and before each journal, the faults and external
\* deletions so far, the last answer of the operating system, the
\* cancellation request, the state of the plan, the operations started, and
\* the number of batches the behaviour may dispatch
NoHistory ==
  [pre |-> <<>>, start |-> <<>>, fresh |-> -1, faults |-> 0, ext |-> 0,
   fault |-> "none", req |-> NoRequest, scan |-> "none", previews |-> 0,
   batches |-> 0, restores |-> 0, budget |-> MaxBatches]

Init ==
  /\ \E S \in Trees : files = TreeFiles(S) /\ dirs = TreeDirs(S)
  /\ sort_mode \in SortMode
  /\ options \in OptionChoices
  /\ organizer = NoOrganizer
  /\ cancel_requested = FALSE
  /\ planned_moves = <<>>
  /\ planned_folder_moves = <<>>
  /\ skipped_files = <<>>
  /\ is_processing = FALSE
  /\ pc = "idle"
  /\ work = NoWork
  /\ result = NewResult
  /\ backups = <<>>
  /\ clock = 0
  /\ platform \in Platforms
  /\ hist = NoHistory

(***************************************************************************)
(* Preview: _preview, _scan_worker, scan_files, _on_scan_complete          *)
(***************************************************************************)
\* the buttons enabled whatever runs
ControlsEnabledAlways == TRUE

\* _update_button_states: Preview, Organize, Browse and Restore take a click
\* only while nothing is processing
ControlsEnabled == ~is_processing

\* FileOrganizer(folder, sort_mode, options)
NewOrganizer == [mode |-> sort_mode, options |-> options]

\* _preview: a new organizer, and the scan worker is dispatched
Preview ==
  /\ ControlsEnabled
  /\ hist.previews < MaxPreviews
  /\ hist' = [hist EXCEPT !.previews = @ + 1]
  /\ is_processing' = TRUE
  /\ organizer' = NewOrganizer
  /\ cancel_requested' = FALSE
  /\ pc' = "scan_start"
  /\ UNCHANGED <<platform, files, dirs, sort_mode, options, planned_moves,
                 planned_folder_moves, skipped_files, work, result, backups,
                 clock>>

\* scan_files up to its loops: reset_cancel, the root folders, the strategy
ScanBegin ==
  /\ pc = "scan_start"
  /\ cancel_requested' = FALSE
  /\ \E st \in ScanStarts(organizer, files, dirs) :
       /\ work' = st
       /\ pc' = IF st.fq # <<>> THEN "scan_folders" ELSE "scan_files"
  /\ UNCHANGED <<platform, files, dirs, sort_mode, options, organizer, planned_moves,
                 planned_folder_moves, skipped_files, is_processing, result,
                 backups, clock, hist>>

\* one pass of the folder loop of scan_files
ScanFolderStep ==
  /\ pc = "scan_folders"
  /\ IF cancel_requested
     THEN work' = [work EXCEPT !.fq = <<>>]
     ELSE work' = [work EXCEPT !.fq = Tail(@),
                               !.folder_moves = ScanFolder(files, Head(work.fq), @)]
  /\ pc' = IF work'.fq = <<>> THEN "scan_files" ELSE "scan_folders"
  /\ UNCHANGED <<platform, files, dirs, sort_mode, options, organizer, cancel_requested,
                 planned_moves, planned_folder_moves, skipped_files,
                 is_processing, result, backups, clock, hist>>

\* one pass of the file loop of scan_files
ScanFileStep ==
  /\ pc = "scan_files"
  /\ work.q # <<>> /\ ~cancel_requested
  /\ work' = [work EXCEPT !.q = Tail(@),
                          !.acc = ScanFile(organizer, files, Head(work.q), @)]
  /\ UNCHANGED <<platform, files, dirs, sort_mode, options, organizer, cancel_requested,
                 planned_moves, planned_folder_moves, skipped_files,
                 is_processing, pc, result, backups, clock, hist>>

\* scan_files returns and _scan_worker queues scan_complete
ScanFinish ==
  /\ pc = "scan_files"
  /\ work.q = <<>> \/ cancel_requested
  /\ work' = [op |-> "scan_complete", moves |-> work.acc.moves,
              skipped |-> work.acc.skipped, folder_moves |-> work.folder_moves,
              folders_detected |-> work.folders_detected,
              cancelled |-> cancel_requested]
  /\ pc' = "scan_msg"
  /\ UNCHANGED <<platform, files, dirs, sort_mode, options, organizer, cancel_requested,
                 planned_moves, planned_folder_moves, skipped_files,
                 is_processing, result, backups, clock, hist>>

\* _on_scan_complete
OnScanComplete ==
  /\ pc = "scan_msg"
  /\ planned_moves' = work.moves
  /\ planned_folder_moves' = work.folder_moves
  /\ skipped_files' = work.skipped
  /\ is_processing' = FALSE
  /\ pc' = "idle"
  /\ work' = NoWork
  /\ hist' = [hist EXCEPT !.scan = IF work.cancelled THEN "partial" ELSE "full"]
  /\ UNCHANGED <<platform, files, dirs, sort_mode, options, organizer, cancel_requested,
                 result, backups, clock>>

(***************************************************************************)
(* Cancellation                                                            *)
(***************************************************************************)
ExecPcs == {"exec_folders", "exec_folder_body", "exec_files", "exec_file_body"}
WorkerPcs ==
  {"scan_start", "scan_folders", "scan_files", "exec_start", "exec_finish"}
    \cup ExecPcs

\* the items of the running batch that have been processed to their end
ItemsDone ==
  IF pc \in ExecPcs THEN (work.fi - 1) + (work.i - 1) ELSE 0

\* _cancel_operation -> request_cancel, from the cancel button, while a
\* worker runs
RequestCancel ==
  /\ is_processing /\ pc \in WorkerPcs
  /\ ~cancel_requested
  /\ cancel_requested' = TRUE
  /\ hist' = IF pc \in ExecPcs \cup {"exec_start"} /\ hist.req = NoRequest
             THEN [hist EXCEPT !.req =
                     [at |-> ItemsDone,
                      mid |-> pc \in {"exec_folder_body", "exec_file_body"}]]
             ELSE hist
  /\ UNCHANGED <<platform, files, dirs, sort_mode, options, organizer, planned_moves,
                 planned_folder_moves, skipped_files, is_processing, pc, work,
                 result, backups, clock>>

(***************************************************************************)
(* Organize: _organize, _organize_worker, execute_moves                    *)
(***************************************************************************)
\* _organize. Without a plan it scans at once, on the caller's thread; it
\* returns when there is nothing to do or the user declines
Organize ==
  /\ ControlsEnabled
  /\ hist.batches < hist.budget
  /\ \E st \in (IF planned_moves = <<>> /\ planned_folder_moves = <<>>
                 THEN ScanStarts(NewOrganizer, files, dirs) ELSE {NoWork}) :
     \E confirmed \in BOOLEAN :
       LET scanned == st # NoWork
           acc == ScanFiles(NewOrganizer, files, st.q, EmptyAcc)
           moves == IF scanned THEN acc.moves ELSE planned_moves
           folder_moves == IF scanned THEN ScanFolders(files, st.fq, <<>>)
                           ELSE planned_folder_moves
           go == (moves # <<>> \/ folder_moves # <<>>) /\ confirmed
       IN /\ planned_moves' = moves
          /\ planned_folder_moves' = folder_moves
          /\ skipped_files' = IF scanned THEN acc.skipped ELSE skipped_files
          /\ organizer' = IF scanned \/ go THEN NewOrganizer ELSE organizer
          /\ cancel_requested' = IF scanned \/ go THEN FALSE ELSE cancel_requested
          /\ is_processing' = go
          /\ pc' = IF go THEN "exec_start" ELSE "idle"
          /\ hist' = [hist EXCEPT
                        !.batches = IF go THEN @ + 1 ELSE @,
                        !.scan = IF scanned THEN "full" ELSE @]
  /\ UNCHANGED <<platform, files, dirs, sort_mode, options, work, result, backups, clock>>

\* where execute_moves stands once folder fi - 1 and file i - 1 are done
AfterItem(fi, i) ==
  IF fi <= Len(planned_folder_moves) THEN "exec_folders"
  ELSE IF i <= Len(planned_moves) THEN "exec_files"
  ELSE "exec_finish"

\* execute_moves up to its loops: a new result, reset_cancel
ExecBegin ==
  /\ pc = "exec_start"
  /\ result' = NewResult
  /\ cancel_requested' = FALSE
  /\ work' = [op |-> "execute", fi |-> 1, i |-> 1]
  /\ pc' = AfterItem(1, 1)
  /\ hist' = [hist EXCEPT !.fresh = -1, !.start = files]
  /\ UNCHANGED <<platform, files, dirs, sort_mode, options, organizer, planned_moves,
                 planned_folder_moves, skipped_files, is_processing, backups,
                 clock>>

\* the head of the folder loop: the cancellation check
ExecFolderCheck ==
  /\ pc = "exec_folders"
  /\ IF cancel_requested
     THEN /\ result' = [result EXCEPT !.cancelled = TRUE]
          /\ pc' = IF planned_moves # <<>> THEN "exec_files" ELSE "exec_finish"
     ELSE /\ result' = result
          /\ pc' = "exec_folder_body"
  /\ UNCHANGED <<platform, files, dirs, sort_mode, options, organizer, cancel_requested,
                 planned_moves, planned_folder_moves, skipped_files,
                 is_processing, work, backups, clock, hist>>

\* the head of the file loop: the cancellation check
ExecFileCheck ==
  /\ pc = "exec_files"
  /\ IF cancel_requested
     THEN /\ result' = [result EXCEPT !.cancelled = TRUE]
          /\ pc' = "exec_finish"
     ELSE /\ result' = result
          /\ pc' = "exec_file_body"
  /\ UNCHANGED <<platform, files, dirs, sort_mode, options, organizer, cancel_requested,
                 planned_moves, planned_folder_moves, skipped_files,
                 is_processing, work, backups, clock, hist>>

\* what the operating system answers to one item
Faults == {"none", "locked", "permission", "in use", "os error"}
\* the failures shutil.move raises
MoveFaults == {"permission", "in use", "os error"}
UseFault(fault) ==
  [hist EXCEPT !.fault = fault, !.faults = IF fault = "none" THEN @ ELSE @ + 1]

\* the entry appended without the count
SkipUncounted(res, path, reason) ==
  [res EXCEPT !.skipped_files = Append(@, [path |-> path, reason |-> reason])]

Skip(res, path, reason) ==
  [res EXCEPT !.skipped = @ + 1,
              !.skipped_files = Append(@, [path |-> path, reason |-> reason])]
\* the message appended without the count
ErrorUncounted(res, name) ==
  [res EXCEPT !.error_messages = Append(@, NameStr(name))]

Error(res, name) ==
  [res EXCEPT !.errors = @ + 1, !.error_messages = Append(@, NameStr(name))]

\* the body of the folder loop, the try block and its handlers: every
\* failure is counted as an error
ExecFolderBody ==
  /\ pc = "exec_folder_body"
  /\ \E fault \in Faults \ {"locked"} :
       LET folder_move == planned_folder_moves[work.fi]
           name == Last(folder_move.source)
           parent == Parent(folder_move.destination)
           made == MkdirP(dirs, parent)
           final_dest == unique_folder_destination(files, made,
                                                   folder_move.destination, name)
       IN /\ fault # "none" =>
               /\ hist.faults < MaxFaults
               /\ ~MkdirFails(files, parent) /\ final_dest # NoPath
          /\ hist' = UseFault(fault)
          /\ IF MkdirFails(files, parent)
             THEN /\ result' = Error(result, name)
                  /\ UNCHANGED <<platform, files, dirs>>
             ELSE IF final_dest = NoPath \/ fault # "none"
                     \/ ~IsDirIn(dirs, folder_move.source)
             THEN /\ result' = Error(result, name)
                  /\ dirs' = made
                  /\ files' = files
             ELSE /\ files' = MoveTreeFiles(files, folder_move.source, final_dest)
                  /\ dirs' = MoveTreeDirs(made, folder_move.source, final_dest)
                  /\ result' =
                       [result EXCEPT
                          !.folders_moved = @ + 1,
                          !.folder_move_log =
                             Append(@, <<folder_move.source, final_dest,
                                         folder_move.file_count>>)]
  /\ work' = [work EXCEPT !.fi = @ + 1]
  /\ pc' = AfterItem(work.fi + 1, 1)
  /\ UNCHANGED <<platform, sort_mode, options, organizer, cancel_requested, planned_moves,
                 planned_folder_moves, skipped_files, is_processing, backups,
                 clock>>

\* the planned destination logged in place of the final one
LogMovePlanned(res, move, final_dest) ==
  [res EXCEPT !.moved = @ + 1,
              !.move_log = Append(@, <<move.source, move.destination>>)]

\* after shutil.move has returned: the count and the pair of the move log
LogMove(res, move, final_dest) ==
  [res EXCEPT !.moved = @ + 1,
              !.move_log = Append(@, <<move.source, final_dest>>)]

\* the handlers of the file loop: PermissionError, OSError whose text says
\* the file is in use, any other exception
\* every failure of a file move counted as an error
MoveFailureAllErrors(res, move, fault) == Error(res, Last(move.source))

MoveFailure(res, move, fault) ==
  IF fault = "permission" THEN Skip(res, move.source, PERMISSION_DENIED)
  ELSE IF fault = "in use" THEN Skip(res, move.source, FILE_IN_USE)
  ELSE Error(res, Last(move.source))

\* the body of the file loop, the try block and its handlers
ExecFileBody ==
  /\ pc = "exec_file_body"
  /\ \E fault \in Faults :
       LET move == planned_moves[work.i]
           name == Last(move.source)
           skip_reason ==
             check_file_accessibility(organizer.options, files, move.source,
                                      TRUE, fault = "locked")
           parent == Parent(move.destination)
           made == MkdirP(dirs, parent)
           final_dest == get_unique_destination(files, made, move.destination)
       IN /\ fault # "none" => hist.faults < MaxFaults
          /\ fault = "locked" =>
               /\ IsFile(files, move.source)
               /\ check_file_accessibility(organizer.options, files,
                                           move.source, FALSE, FALSE) = None
          /\ fault \in MoveFaults =>
               /\ skip_reason = None /\ ~MkdirFails(files, parent)
               /\ final_dest # NoPath /\ check_path_length(final_dest)
          /\ hist' = UseFault(fault)
          /\ IF skip_reason # None
             THEN /\ result' = Skip(result, move.source, skip_reason)
                  /\ UNCHANGED <<platform, files, dirs>>
             ELSE IF MkdirFails(files, parent)
             THEN /\ result' = Error(result, name)
                  /\ UNCHANGED <<platform, files, dirs>>
             ELSE IF final_dest = NoPath
             THEN /\ result' = Error(result, name)
                  /\ dirs' = made
                  /\ files' = files
             ELSE IF ~check_path_length(final_dest)
             THEN /\ result' = Skip(result, move.source, PATH_TOO_LONG)
                  /\ dirs' = made
                  /\ files' = files
             ELSE IF fault \in MoveFaults
             THEN /\ result' = MoveFailure(result, move, fault)
                  /\ dirs' = made
                  /\ files' = files
             ELSE /\ files' = MoveFile(files, move.source, final_dest)
                  /\ dirs' = made
                  /\ result' = LogMove(result, move, final_dest)
  /\ work' = [work EXCEPT !.i = @ + 1]
  /\ pc' = AfterItem(Len(planned_folder_moves) + 1, work.i + 1)
  /\ UNCHANGED <<platform, sort_mode, options, organizer, cancel_requested, planned_moves,
                 planned_folder_moves, skipped_files, is_processing, backups,
                 clock>>

(***************************************************************************)
(* Backup journal                                                          *)
(***************************************************************************)
\* save_backup: the file is named after the second it is written in
save_backup(bk, now, folder, move_log, mode, skipped) ==
  [b \in DOMAIN bk \cup {now} |->
     IF b = now
     THEN [timestamp |-> now, source_folder |-> folder, sort_mode |-> mode,
           file_count |-> Len(move_log),
           moves |-> [k \in 1..Len(move_log) |->
                        [original |-> move_log[k][1], destination |-> move_log[k][2]]],
           skipped |-> skipped]
     ELSE bk[b]]

\* delete_backup
delete_backup(bk, b) == [c \in DOMAIN bk \ {b} |-> bk[c]]

\* delete_empty_folders: bottom-up, so a folder goes when no file is below it
delete_empty_folders(fs, ds) ==
  {d \in ds : \E p \in DOMAIN fs : IsInside(d, p)}

NoBackup == -1

\* the journal written whatever the batch did
ShouldSaveAlways(res) == TRUE

\* the journal is saved when either log of the batch is not empty
ShouldSave(res) == res.move_log # <<>> \/ res.folder_move_log # <<>>

\* str(path) holds a lone surrogate
HasRawName(fs, p) == "raw_name" \in AttrsOf(fs, p)

\* json.dump(backup_data, f, ensure_ascii=False) into a file opened with
\* encoding='utf-8': a lone surrogate in a path of the moves or of the
\* skipped entries raises UnicodeEncodeError
JournalEncodable(fs, move_log, skipped) ==
  /\ \A k \in DOMAIN move_log : ~HasRawName(fs, move_log[k][2])
  /\ \A k \in DOMAIN skipped : ~HasRawName(fs, skipped[k].path)

\* _organize_worker after execute_moves has returned: the journal, the empty
\* folders, and organize_complete is queued. Nothing in the worker catches
\* what save_backup raises: the thread ends there, with the journal file
\* opened for writing and cut short, which list_backups passes over
ExecFinish ==
  /\ pc = "exec_finish"
  /\ LET all_skipped == skipped_files \o result.skipped_files
         saved == ShouldSave(result)
         written == JournalEncodable(files, result.move_log, all_skipped)
     IN IF saved /\ ~written
        THEN /\ backups' = delete_backup(backups, clock)
             /\ work' = [op |-> "raised"]
             /\ pc' = "worker_raised"
             /\ UNCHANGED <<dirs, hist>>
        ELSE /\ backups' = IF saved
                           THEN save_backup(backups, clock, source_folder,
                                            result.move_log, organizer.mode,
                                            all_skipped)
                           ELSE backups
             /\ work' = [op |-> "organize_complete", all_skipped |-> all_skipped,
                         backup_path |-> IF saved THEN clock ELSE NoBackup]
             /\ hist' = IF saved
                        THEN [hist EXCEPT
                                !.fresh = clock, !.ext = 0, !.fault = "none",
                                !.pre = [b \in DOMAIN hist.pre \cup {clock} |->
                                           IF b = clock THEN hist.start
                                           ELSE hist.pre[b]]]
                        ELSE [hist EXCEPT !.fault = "none"]
             /\ dirs' = IF organizer.options.delete_empty_folders
                            /\ (result.moved > 0 \/ result.folders_moved > 0)
                         THEN delete_empty_folders(files, dirs) ELSE dirs
             /\ pc' = "org_msg"
  /\ UNCHANGED <<platform, files, sort_mode, options, organizer, cancel_requested,
                 planned_moves, planned_folder_moves, skipped_files,
                 is_processing, result, clock>>

\* _on_organize_complete
OnOrganizeComplete ==
  /\ pc = "org_msg"
  /\ is_processing' = FALSE
  /\ planned_moves' = <<>>
  /\ skipped_files' = <<>>
  /\ pc' = "idle"
  /\ work' = NoWork
  /\ result' = NewResult
  /\ hist' = [hist EXCEPT !.req = NoRequest, !.start = <<>>, !.scan = "none"]
  /\ UNCHANGED <<platform, files, dirs, sort_mode, options, organizer, cancel_requested,
                 planned_folder_moves, backups, clock>>

(***************************************************************************)
(* Restorer: _execute_restore, execute_restore                             *)
(***************************************************************************)
\* the restored name without its number
RestoredUnnumbered(n, counter) ==
  [stem |-> n.stem \o "_restored", ext |-> n.ext, dot |-> n.dot]

\* f"{stem}_restored_{counter}{suffix}"
Restored(n, counter) ==
  [stem |-> n.stem \o "_restored_" \o ToString(counter), ext |-> n.ext,
   dot |-> n.dot]

RECURSIVE RestoredFrom(_, _, _, _)
\* the while loop of execute_restore: the first free restored name
RestoredFrom(fs, ds, original, counter) ==
  IF ~PathExists(fs, ds, Child(Parent(original), Restored(Last(original), counter)))
  THEN Child(Parent(original), Restored(Last(original), counter))
  ELSE RestoredFrom(fs, ds, original, counter + 1)

\* the original path used even when it is taken
final_original_overwrite(fs, ds, original) == original

final_original_of(fs, ds, original) ==
  IF PathExists(fs, ds, original) THEN RestoredFrom(fs, ds, original, 1)
  ELSE original

\* the loop left without the mark on the result
RestoreCancelledUnmarked(res) == res

\* result.cancelled = True, before the break of the loop of execute_restore
RestoreCancelled(res) == [res EXCEPT !.cancelled = TRUE]

\* _execute_restore: the journal is loaded and execute_restore starts
RestoreBegin ==
  /\ ControlsEnabled
  /\ hist.restores < MaxRestores
  /\ \E b \in DOMAIN backups :
       work' = [op |-> "restore", backup |-> b, moves |-> backups[b].moves, i |-> 1]
  /\ is_processing' = TRUE
  /\ result' = NewResult
  /\ pc' = "restore"
  /\ hist' = [hist EXCEPT !.restores = @ + 1, !.scan = "none"]
  /\ UNCHANGED <<platform, files, dirs, sort_mode, options, organizer, cancel_requested,
                 planned_moves, planned_folder_moves, skipped_files, backups,
                 clock>>

\* one pass of the loop of execute_restore; cancel_check is the caller's
\* predicate, asked before each entry
RestoreStep ==
  /\ pc = "restore"
  /\ work.i <= Len(work.moves)
  /\ \E cancel_check \in BOOLEAN : \E fault \in {"none", "permission", "os error"} :
       LET original == work.moves[work.i].original
           destination == work.moves[work.i].destination
           parent == Parent(original)
           made == MkdirP(dirs, parent)
           final_original == final_original_of(files, made, original)
       IN /\ fault # "none" =>
               /\ hist.faults < MaxFaults /\ ~cancel_check
               /\ PathExists(files, dirs, destination)
               /\ ~MkdirFails(files, parent)
          /\ hist' = UseFault(fault)
          /\ IF cancel_check
             THEN /\ result' = RestoreCancelled(result)
                  /\ pc' = "restore_done"
                  /\ UNCHANGED <<platform, files, dirs, work>>
             ELSE /\ work' = [work EXCEPT !.i = @ + 1]
                  /\ pc' = IF work.i + 1 > Len(work.moves)
                            THEN "restore_done" ELSE "restore"
                  /\ IF ~PathExists(files, dirs, destination)
                     THEN /\ result' = Skip(result, destination, MOVE_ERROR)
                          /\ UNCHANGED <<platform, files, dirs>>
                     ELSE IF MkdirFails(files, parent)
                     THEN /\ result' = Error(result, Last(destination))
                          /\ UNCHANGED <<platform, files, dirs>>
                     ELSE IF fault = "permission"
                     THEN /\ result' = Skip(result, destination, PERMISSION_DENIED)
                          /\ dirs' = made
                          /\ files' = files
                     ELSE IF fault = "os error"
                     THEN /\ result' = Error(result, Last(destination))
                          /\ dirs' = made
                          /\ files' = files
                     ELSE /\ files' = IF IsFile(files, destination)
                                       THEN MoveFile(files, destination, final_original)
                                       ELSE MoveTreeFiles(files, destination, final_original)
                          /\ dirs' = IF IsFile(files, destination) THEN made
                                      ELSE MoveTreeDirs(made, destination, final_original)
                          /\ result' =
                               [result EXCEPT
                                  !.moved = @ + 1,
                                  !.move_log = Append(@, <<destination, final_original>>)]
  /\ UNCHANGED <<platform, sort_mode, options, organizer, cancel_requested, planned_moves,
                 planned_folder_moves, skipped_files, is_processing, backups,
                 clock>>

\* _execute_restore after execute_restore has returned: after a restore
\* with no error that was not cancelled the user may have the journal deleted
RestoreFinish ==
  /\ pc = "restore_done" \/ (pc = "restore" /\ work.moves = <<>>)
  /\ is_processing' = FALSE
  /\ \E delete \in BOOLEAN :
       backups' = IF delete /\ result.moved > 0 /\ result.errors = 0
                     /\ ~result.cancelled
                  THEN delete_backup(backups, work.backup) ELSE backups
  /\ pc' = "idle"
  /\ work' = NoWork
  /\ result' = NewResult
  /\ hist' = [hist EXCEPT !.fault = "none"]
  /\ UNCHANGED <<platform, files, dirs, sort_mode, options, organizer, cancel_requested,
                 planned_moves, planned_folder_moves, skipped_files, clock>>

\* do_delete of the restore dialog
DeleteBackup ==
  /\ ControlsEnabled
  /\ \E b \in DOMAIN backups : backups' = delete_backup(backups, b)
  /\ UNCHANGED <<platform, files, dirs, sort_mode, options, organizer, cancel_requested,
                 planned_moves, planned_folder_moves, skipped_files,
                 is_processing, pc, work, result, clock, hist>>

(***************************************************************************)
(* Environment                                                             *)
(***************************************************************************)
\* somebody else deletes an organized file a journal refers to
ExternalDelete ==
  /\ pc = "idle"
  /\ hist.ext < MaxExternal
  /\ \E b \in DOMAIN backups : \E k \in DOMAIN backups[b].moves :
       /\ IsFile(files, backups[b].moves[k].destination)
       /\ files' = [p \in DOMAIN files \ {backups[b].moves[k].destination} |-> files[p]]
  /\ hist' = [hist EXCEPT !.ext = @ + 1, !.scan = "none"]
  /\ UNCHANGED <<platform, dirs, sort_mode, options, organizer, cancel_requested,
                 planned_moves, planned_folder_moves, skipped_files,
                 is_processing, pc, work, result, backups, clock>>

\* a second passes
Tick ==
  /\ pc = "idle"
  /\ clock < MaxClock
  /\ DOMAIN backups # {}
  /\ clock' = clock + 1
  /\ UNCHANGED <<platform, files, dirs, sort_mode, options, organizer, cancel_requested,
                 planned_moves, planned_folder_moves, skipped_files,
                 is_processing, pc, work, result, backups, hist>>

Next ==
  \/ Preview \/ ScanBegin \/ ScanFolderStep \/ ScanFileStep \/ ScanFinish
  \/ OnScanComplete \/ RequestCancel \/ Organize \/ ExecBegin
  \/ ExecFolderCheck \/ ExecFolderBody \/ ExecFileCheck \/ ExecFileBody
  \/ ExecFinish \/ OnOrganizeComplete \/ RestoreBegin \/ RestoreStep
  \/ RestoreFinish \/ DeleteBackup \/ ExternalDelete \/ Tick

Spec == Init /\ [][Next]_vars

\* the program used for one more batch on the same folder: by date, with
\* Keep folders intact checked
\* the application opened on a tree that holds a file with a long name
InitLong ==
  /\ \E S \in LongTrees : files = TreeFiles(S) /\ dirs = TreeDirs(S)
  /\ sort_mode \in SortMode
  /\ options \in OptionChoices
  /\ organizer = NoOrganizer
  /\ cancel_requested = FALSE
  /\ planned_moves = <<>>
  /\ planned_folder_moves = <<>>
  /\ skipped_files = <<>>
  /\ is_processing = FALSE
  /\ pc = "idle"
  /\ work = NoWork
  /\ result = NewResult
  /\ backups = <<>>
  /\ clock = 0
  /\ platform \in Platforms
  /\ hist = NoHistory

SpecLong == InitLong /\ [][Next]_vars

\* the application opened on a tree that holds the file whose name is no
\* text
InitNames ==
  /\ \E S \in RawTrees : files = TreeFiles(S) /\ dirs = TreeDirs(S)
  /\ sort_mode \in SortMode
  /\ options \in OptionChoices
  /\ organizer = NoOrganizer
  /\ cancel_requested = FALSE
  /\ planned_moves = <<>>
  /\ planned_folder_moves = <<>>
  /\ skipped_files = <<>>
  /\ is_processing = FALSE
  /\ pc = "idle"
  /\ work = NoWork
  /\ result = NewResult
  /\ backups = <<>>
  /\ clock = 0
  /\ platform \in Platforms
  /\ hist = NoHistory

\* the worker thread is scheduled
WorkerRuns ==
  \/ ScanBegin \/ ScanFolderStep \/ ScanFileStep \/ ScanFinish
  \/ ExecBegin \/ ExecFolderCheck \/ ExecFolderBody \/ ExecFileCheck
  \/ ExecFileBody \/ ExecFinish

\* _poll_task_queue, rearmed every 50 ms, takes the completion message
PollTaskQueue == OnScanComplete \/ OnOrganizeComplete

\* the worker thread goes on while it can and the queue is polled
Fairness == WF_vars(WorkerRuns) /\ WF_vars(PollTaskQueue)

SpecNames == InitNames /\ [][Next]_vars /\ Fairness

InitRepeat ==
  /\ \E S \in Trees : files = TreeFiles(S) /\ dirs = TreeDirs(S)
  /\ sort_mode = BY_DATE
  /\ options = ScanOptions(FALSE, FALSE, FALSE, TRUE, FALSE)
  /\ organizer = NoOrganizer
  /\ cancel_requested = FALSE
  /\ planned_moves = <<>>
  /\ planned_folder_moves = <<>>
  /\ skipped_files = <<>>
  /\ is_processing = FALSE
  /\ pc = "idle"
  /\ work = NoWork
  /\ result = NewResult
  /\ backups = <<>>
  /\ clock = 0
  /\ platform \in Platforms
  /\ hist = [NoHistory EXCEPT !.budget = MaxBatches + 1]

SpecRepeat == InitRepeat /\ [][Next]_vars

(***************************************************************************)
(* Claims                                                                  *)
(***************************************************************************)
\* a restore of the journal of the latest batch has run to its end, nothing
\* outside the program touched the tree since that batch, the operating
\* system refused nothing, and every entry was moved
CleanRestoreDone ==
  /\ pc = "restore_done" /\ ~result.cancelled
  /\ work.backup = hist.fresh /\ hist.ext = 0 /\ hist.faults = 0
  /\ result.errors = 0 /\ result.skipped = 0

\* C1: round trip. After a restore of the journal a batch saved, with no
\* external change in between, every file the batch moved is again at the
\* path it had before the batch.
C1_RoundTrip ==
  CleanRestoreDone =>
    \A k \in DOMAIN work.moves :
      LET original == work.moves[k].original
      IN /\ IsFile(files, original)
         /\ files[original] = hist.pre[work.backup][original]

\* the batch has ended and its journal is written
BatchSaved == pc = "org_msg" /\ work.backup_path # NoBackup

JournalPairs(b) ==
  {<<backups[b].moves[k].original, backups[b].moves[k].destination>> :
     k \in DOMAIN backups[b].moves}

\* C2: every successful mutation of a batch, a file move or a folder move,
\* is an (original, destination) pair of the journal saved for the batch.
C2_JournalComplete ==
  BatchSaved =>
    /\ \A k \in DOMAIN result.move_log :
         <<result.move_log[k][1], result.move_log[k][2]>>
           \in JournalPairs(work.backup_path)
    /\ \A k \in DOMAIN result.folder_move_log :
         <<result.folder_move_log[k][1], result.folder_move_log[k][2]>>
           \in JournalPairs(work.backup_path)

\* the batch that has ended carried out every move of the plan of a scan
\* that ran to its end, and the tree was not changed between that scan and
\* the batch
AllExecuted ==
  /\ pc = "org_msg"
  /\ result.moved = Len(planned_moves)
  /\ result.folders_moved = Len(planned_folder_moves)
  /\ hist.scan = "full"

\* C3: idempotence. After a complete scan whose planned moves were all
\* executed, a scan of the same root with the same mode and options plans no
\* file move, in whatever order it walks the tree.
C3_Idempotent ==
  AllExecuted =>
    \A st \in ScanStarts(organizer, files, dirs) :
      ScanFiles(organizer, files, st.q, EmptyAcc).moves = <<>>

\* a plan of two files was carried out whole
C3_Witness == AllExecuted /\ result.moved = 2

\* the items of the running batch, folders first
PlannedItems == Len(planned_folder_moves) + Len(planned_moves)

\* the planned file move j has not been touched by the running batch
Untouched(j) ==
  LET source == planned_moves[j].source
  IN IsFile(hist.start, source) =>
       IsFile(files, source) /\ files[source] = hist.start[source]

\* every pair of the move log still names the place of the file it moved
NothingRolledBack ==
  \A k \in DOMAIN result.move_log :
    /\ IsFile(files, result.move_log[k][2])
    /\ files[result.move_log[k][2]] = hist.start[result.move_log[k][1]]

\* execute_moves has returned from a batch during which cancellation was
\* requested between two items: after the items before it had completed and
\* before the cancellation check of the next item
CancelledBetweenItems ==
  /\ pc = "exec_finish"
  /\ hist.req # NoRequest /\ ~hist.req.mid
  /\ hist.req.at < PlannedItems

\* C4: cancellation mid-batch. When cancellation is requested after exactly
\* k of the n planned items have completed, k < n, execute_moves returns
\* with cancelled set, exactly the first k items counted (moved = k when
\* none was skipped or failed), the files of the other n - k items at their
\* original paths, and nothing rolled back. The request is taken at the
\* points where the claim is unambiguous, between two items; a request that
\* arrives while an item is under way is left out.
C4_CancelMidBatch ==
  CancelledBetweenItems =>
    /\ result.cancelled
    /\ result.moved + result.folders_moved + result.skipped + result.errors
         = hist.req.at
    /\ \A j \in DOMAIN planned_moves :
         j + Len(planned_folder_moves) > hist.req.at => Untouched(j)
    /\ NothingRolledBack

\* execute_restore passes from one journal entry to the next
RestoreEntryStep ==
  /\ pc = "restore" /\ pc' \in {"restore", "restore_done"}
  /\ work'.i = work.i + 1

\* the entry at hand is counted as a skip with reason move-error, nothing
\* is moved, and the loop goes on to the next entry when there is one
ReportedMissing(destination) ==
  /\ result'.skipped = result.skipped + 1
  /\ result'.skipped_files =
       Append(result.skipped_files, [path |-> destination, reason |-> MOVE_ERROR])
  /\ result'.moved = result.moved /\ result'.errors = result.errors
  /\ files' = files
  /\ pc' = "restore" <=> work.i < Len(work.moves)

\* the names original_restored_N
RestoredPath(original, N) == Child(Parent(original), Restored(Last(original), N))

\* the file of the entry is, after the step, at the original path when that
\* was free, else at the first free restored name
MovedBack(original, destination) ==
  LET made == MkdirP(dirs, Parent(original))
      taken(p) == PathExists(files, made, p)
  IN /\ result'.moved = result.moved + 1
     /\ result'.skipped = result.skipped /\ result'.errors = result.errors
     /\ ~IsFile(files', destination)
     /\ IF ~taken(original)
        THEN IsFile(files', original) /\ files'[original] = files[destination]
        ELSE \E N \in 1..(Cardinality(DOMAIN files) + Cardinality(made) + 1) :
               /\ \A k \in 1..(N - 1) : taken(RestoredPath(original, k))
               /\ ~taken(RestoredPath(original, N))
               /\ IsFile(files', RestoredPath(original, N))
               /\ files'[RestoredPath(original, N)] = files[destination]

\* the move of the entry was refused: one skip or one error, nothing moved
Refused ==
  /\ result'.moved = result.moved
  /\ result'.skipped + result'.errors = result.skipped + result.errors + 1
  /\ files' = files

\* C5 as stated: an entry whose organized file is gone is reported as a skip
\* with reason move-error and the restore continues; every other entry is
\* restored to its original path.
C5_MissingDestination_AsStated ==
  [][RestoreEntryStep =>
       LET original == work.moves[work.i].original
           destination == work.moves[work.i].destination
       IN IF ~PathExists(files, dirs, destination)
          THEN ReportedMissing(destination)
          ELSE IsFile(files, destination) =>
                 /\ IsFile(files', original)
                 /\ files'[original] = files[destination]]_vars

\* C5: restore with a missing destination. An entry whose organized file is
\* gone is reported as a skip with reason move-error and the restore
\* continues; every other entry is moved back unless the operating system
\* refuses the move, to its original path when nothing occupies it and else
\* to the first free name original_restored_N.
C5_MissingDestination ==
  [][RestoreEntryStep =>
       LET original == work.moves[work.i].original
           destination == work.moves[work.i].destination
       IN IF ~PathExists(files, dirs, destination)
          THEN ReportedMissing(destination)
          ELSE IsFile(files, destination) =>
                 MovedBack(original, destination) \/ Refused]_vars

\* a restore met a missing file, went on and moved another entry back
C5_Witness ==
  /\ pc = "restore_done" /\ ~result.cancelled
  /\ result.moved >= 1
  /\ \E k \in DOMAIN result.skipped_files :
       result.skipped_files[k].reason = MOVE_ERROR

Counted(res) == res.moved + res.skipped + res.errors

\* C6: the restorer drops no entry. Each entry it processes adds one to
\* exactly one of moved, skipped and errors, and when a restore that was not
\* cancelled has ended the three add up to the number of pairs of the
\* journal.
C6_NoEntryDropped ==
  [][/\ RestoreEntryStep =>
          /\ Counted(result') = Counted(result) + 1
          /\ result'.moved >= result.moved
          /\ result'.skipped >= result.skipped
          /\ result'.errors >= result.errors
     /\ (pc' = "restore_done" /\ ~result'.cancelled) =>
          Counted(result') = Len(work'.moves)]_vars

\* a restore of two entries ended with one moved and one not
C6_Witness ==
  /\ pc = "restore_done" /\ ~result.cancelled
  /\ Len(work.moves) = 2
  /\ result.moved = 1 /\ result.skipped + result.errors = 1

\* the destinations of a plan lie inside the source folder
PlanInside(moves) ==
  \A k \in DOMAIN moves : IsInside(source_folder, moves[k].destination)

\* the final destinations of a log lie inside the source folder
LogInside(log) ==
  \A k \in DOMAIN log : IsInside(source_folder, log[k][2])

ReportDir == Child(source_folder, Dir("Documents"))
ReportPath == Child(ReportDir, Name("report", ".pdf"))

\* report.pdf for 0, report_N.pdf for N >= 1
ReportNamed(N) ==
  IF N = 0 THEN ReportPath
  ELSE Child(ReportDir, Numbered(Name("report", ".pdf"), N))

\* the directory holds any of report.pdf, report_1.pdf .. report_MaxTaken.pdf
InitUnique ==
  /\ \E T \in SUBSET (0..MaxTaken) : files = [p \in {ReportNamed(N) : N \in T} |-> 1]
  /\ dirs = MkdirP({}, ReportDir)
  /\ sort_mode = BY_TYPE
  /\ options = ScanOptions(FALSE, FALSE, FALSE, FALSE, FALSE)
  /\ organizer = [mode |-> BY_TYPE,
                  options |-> ScanOptions(FALSE, FALSE, FALSE, FALSE, FALSE)]
  /\ cancel_requested = FALSE
  /\ planned_moves = <<>> /\ planned_folder_moves = <<>> /\ skipped_files = <<>>
  /\ is_processing = TRUE
  /\ pc = "unique"
  /\ work = [op |-> "unique", final_dest |-> NoPath, last |-> NoPath]
  /\ result = NewResult
  /\ backups = <<>>
  /\ clock = 0
  /\ platform \in Platforms
  /\ hist = NoHistory

\* one more file named report.pdf is moved into the directory: the unique
\* destination is resolved against the tree as it is, then the file is moved
UniqueMove ==
  /\ pc = "unique"
  /\ Cardinality(DOMAIN files) <= MaxTaken + 1
  /\ LET final_dest == get_unique_destination(files, dirs, ReportPath)
     IN /\ files' = [p \in DOMAIN files \cup {final_dest} |->
                       IF p = final_dest THEN 1 ELSE files[p]]
        /\ work' = [op |-> "unique", final_dest |-> final_dest,
                    last |-> work.final_dest]
  /\ UNCHANGED <<platform, dirs, sort_mode, options, organizer, cancel_requested,
                 planned_moves, planned_folder_moves, skipped_files,
                 is_processing, pc, result, backups, clock, hist>>

SpecUnique == InitUnique /\ [][UniqueMove]_vars

\* the counter of a name of the family, 0 for report.pdf itself
CounterOf(p) == CHOOSE N \in 0..(MaxTaken + 3) : p = ReportNamed(N)

\* C8: collision determinism. The candidate path is returned unchanged when
\* it is free. When it is taken the file gets report_N.pdf for the smallest
\* N >= 1 whose name is free: every smaller number is taken, no taken name
\* is used again, and over successive moves the number strictly increases.
C8_CollisionDeterminism ==
  [][pc = "unique" =>
       LET final_dest == work'.final_dest
           taken(N) == PathExists(files, dirs, ReportNamed(N))
       IN /\ \E N \in 0..(MaxTaken + 3) : final_dest = ReportNamed(N)
          /\ ~taken(0) <=> final_dest = ReportPath
          /\ ~taken(CounterOf(final_dest))
          /\ \A k \in 0..(CounterOf(final_dest) - 1) : taken(k)
          /\ work.final_dest # NoPath =>
               CounterOf(final_dest) > CounterOf(work.final_dest)
          /\ \A p \in DOMAIN files : p \in DOMAIN files' /\ files'[p] = files[p]]_vars

\* report.pdf was there, and two more arrivals got report_1.pdf, report_2.pdf
C8_Witness ==
  /\ pc = "unique"
  /\ work.last = ReportNamed(1)
  /\ work.final_dest = ReportNamed(2)

\* the place of a source in the plan of the batch
PlanIndex(source) ==
  CHOOSE j \in DOMAIN planned_moves : planned_moves[j].source = source

\* C9: the move log names only moves that happened. At every point of
\* execute_moves each pair (original, final) of the move log is a move that
\* succeeded: the file that was at original when the batch began is at
\* final and no file is at original; the pairs follow the order of
\* execution; and moved is the number of pairs.
C9_MoveLogTruthful ==
  pc \in ExecPcs \cup {"exec_finish"} =>
    /\ result.moved = Len(result.move_log)
    /\ \A k \in DOMAIN result.move_log :
         LET original == result.move_log[k][1]
             final == result.move_log[k][2]
         IN /\ IsFile(hist.start, original)
            /\ IsFile(files, final) /\ files[final] = hist.start[original]
            /\ ~IsFile(files, original)
            /\ \E j \in DOMAIN planned_moves : planned_moves[j].source = original
    /\ \A j, k \in DOMAIN result.move_log :
         j < k => PlanIndex(result.move_log[j][1]) < PlanIndex(result.move_log[k][1])
    /\ \A k \in DOMAIN result.move_log :
         PlanIndex(result.move_log[k][1]) < work.i

\* two files were moved, the second under a numbered name
C9_Witness ==
  /\ pc = "exec_finish"
  /\ Len(result.move_log) = 2
  /\ Last(result.move_log[2][2]) # Last(result.move_log[2][1])

\* a journal is written or rewritten by the step
JournalWritten ==
  \E b \in DOMAIN backups' : b \notin DOMAIN backups \/ backups'[b] # backups[b]

\* C10: the journal and the moves. When execute_moves has returned the
\* journal is saved if and only if a move of the batch succeeded, of a file
\* or of a folder, whether or not the batch was cancelled; it then holds
\* the pairs of the move log; a batch that moved nothing writes nothing; and
\* a journal is written at no other point.
C10_JournalIffMoved ==
  [][/\ (pc = "exec_finish" /\ pc' = "org_msg") =>
          /\ work'.backup_path # NoBackup
               <=> result.moved + result.folders_moved > 0
          /\ work'.backup_path # NoBackup =>
               /\ work'.backup_path \in DOMAIN backups'
               /\ Len(backups'[work'.backup_path].moves) = Len(result.move_log)
               /\ \A k \in DOMAIN result.move_log :
                    /\ backups'[work'.backup_path].moves[k].original
                         = result.move_log[k][1]
                    /\ backups'[work'.backup_path].moves[k].destination
                         = result.move_log[k][2]
          /\ work'.backup_path = NoBackup => backups' = backups
     /\ JournalWritten => pc = "exec_finish" /\ pc' = "org_msg"]_vars

\* C10 on every tree, the file names that are not text included: when
\* execute_moves has returned, a journal of the batch exists if and only if
\* a move of the batch succeeded.
C10_MovedIsJournalled ==
  [][(pc = "exec_finish" /\ pc' # "exec_finish") =>
        /\ result.moved + result.folders_moved > 0 => clock \in DOMAIN backups'
        /\ result.moved + result.folders_moved = 0 => backups' = backups]_vars

\* a batch cancelled after its first move has its journal
C10_Witness ==
  /\ pc = "org_msg"
  /\ result.cancelled /\ result.moved = 1
  /\ work.backup_path # NoBackup

\* the items of a batch that have been attempted
Attempted(res) == res.folders_moved + res.moved + res.skipped + res.errors

\* execute_moves passes from one planned item to the next
ExecItemStep == pc \in {"exec_folder_body", "exec_file_body"} /\ pc' # pc

\* C11: no skip and no error aborts a batch. Each planned item that is
\* attempted adds one to exactly one of folders_moved, moved, skipped and
\* errors and the batch goes on to the item after it; a batch ends before
\* its last item only when it is cancelled; and when a batch that was not
\* cancelled ends, the four counts add up to the number of planned items.
C11_BatchRunsThrough ==
  [][/\ ExecItemStep =>
          /\ Attempted(result') = Attempted(result) + 1
          /\ result'.folders_moved >= result.folders_moved
          /\ result'.moved >= result.moved
          /\ result'.skipped >= result.skipped
          /\ result'.errors >= result.errors
          /\ work'.fi + work'.i = work.fi + work.i + 1
          /\ Attempted(result') = (work'.fi - 1) + (work'.i - 1)
          /\ pc' = "exec_finish" <=> Attempted(result') = PlannedItems
     /\ (pc \in ExecPcs /\ pc' = "exec_finish" /\ ~result'.cancelled) =>
          Attempted(result') = PlannedItems]_vars

\* a batch of two items went to its end past a skip or an error on its
\* first item
C11_Witness ==
  /\ pc = "exec_finish" /\ ~result.cancelled
  /\ PlannedItems = 2
  /\ result.skipped + result.errors = 1
  /\ result.moved = 1
  /\ result.move_log[1][1] = planned_moves[2].source

\* the step deletes a journal at the user's word: do_delete of the restore
\* dialog, or the offer after a clean restore
ExplicitDeletion ==
  \/ pc = "idle" /\ pc' = "idle"
  \/ pc \in {"restore", "restore_done"} /\ pc' = "idle"

\* C12: the journal directory is append-only. A batch that saves a journal
\* creates a journal that was not there, no step changes a journal written
\* by an earlier batch, however soon the next batch follows, and a journal
\* goes away only when the user has it deleted.
C12_JournalAppendOnly ==
  [][/\ \A b \in DOMAIN backups :
          \/ b \in DOMAIN backups' /\ backups'[b] = backups[b]
          \/ b \notin DOMAIN backups' /\ ExplicitDeletion
     /\ (pc = "exec_finish" /\ pc' = "org_msg" /\ work'.backup_path # NoBackup) =>
          work'.backup_path \notin DOMAIN backups]_vars

\* execute_restore has moved the file of the entry at hand
RestoreMoveStep ==
  /\ RestoreEntryStep
  /\ IsFile(files, work.moves[work.i].destination)
  /\ result'.moved = result.moved + 1

\* C13: restore overwrites nothing. When something occupies the original
\* path of an entry the file goes into the same directory under the first
\* free name stem_restored_N, N = 1, 2, ..; when the original path is free
\* the file goes exactly there and the directories above it exist
\* afterwards. Every other file and every directory is left where it was.
C13_RestoreNoOverwrite ==
  [][RestoreMoveStep =>
       LET original == work.moves[work.i].original
           destination == work.moves[work.i].destination
           made == MkdirP(dirs, Parent(original))
           taken(p) == PathExists(files, made, p)
           at(p) == IsFile(files', p) /\ files'[p] = files[destination]
           beside(N) ==
             Child(Parent(original),
                   [Last(original) EXCEPT
                      !.stem = @ \o "_restored_" \o ToString(N)])
       IN /\ \A p \in DOMAIN files \ {destination} :
               IsFile(files', p) /\ files'[p] = files[p]
          /\ dirs \subseteq dirs'
          /\ Cardinality(DOMAIN files') = Cardinality(DOMAIN files)
          /\ IF taken(original)
             THEN \E N \in 1..(Cardinality(DOMAIN files) + Cardinality(made) + 1) :
                    /\ \A k \in 1..(N - 1) : taken(beside(k))
                    /\ ~taken(beside(N))
                    /\ at(beside(N))
             ELSE /\ at(original)
                  /\ \A q \in Prefixes(Parent(original)) :
                       IsPrefix(q, source_folder) \/ q \in dirs']_vars

\* a restore put a file beside its occupied original path
C13_Witness ==
  /\ pc = "restore_done"
  /\ \E k \in DOMAIN result.move_log : \E j \in DOMAIN work.moves :
       /\ result.move_log[k][1] = work.moves[j].destination
       /\ result.move_log[k][2] = RestoredPath(work.moves[j].original, 1)
       /\ PathExists(files, dirs, work.moves[j].original)

\* the destination scan_files computes for a file of the tree
ScanDestination(file_path) ==
  LET m == Cand[files[file_path]]
  IN get_destination_path(organizer.mode, file_path,
                          get_file_date(m.ctime, m.mtime))

\* scan_files gets as far as computing the destination of the file
DestinationComputed(file_path) ==
  /\ ~is_in_organized_structure(organizer.mode, file_path)
  /\ check_file_accessibility(organizer.options, files, file_path, FALSE, FALSE) = None

\* C14: a destination of exactly 260 characters is accepted and one of 261
\* is rejected: a scanned file whose computed destination is longer than
\* 260 characters is never planned and is recorded as a skipped entry with
\* the reason path-too-long, while one whose destination has exactly 260
\* characters is planned for that destination.
C14_PathLengthBoundary ==
  [][/\ \A k \in DOMAIN planned_moves' :
          PathLen(planned_moves'[k].destination) <= 260
     /\ (pc = "scan_files" /\ pc' = "scan_files" /\ work' # work) =>
          LET f == Head(work.q)
              dest == ScanDestination(f)
              planned == [source |-> f, destination |-> dest]
              PlanOf(acc) ==
                {[source |-> acc.moves[k].source,
                  destination |-> acc.moves[k].destination] :
                   k \in DOMAIN acc.moves}
          IN /\ PathLen(dest) >= 261 => PlanOf(work'.acc) = PlanOf(work.acc)
             /\ (DestinationComputed(f) /\ PathLen(dest) >= 261) =>
                  work'.acc.skipped =
                    Append(work.acc.skipped,
                           [path |-> f, reason |-> PATH_TOO_LONG])
             /\ (DestinationComputed(f) /\ PathLen(dest) = 260 /\ dest # f) =>
                  /\ PlanOf(work'.acc) = PlanOf(work.acc) \cup {planned}
                  /\ work'.acc.skipped = work.acc.skipped]_vars

\* one scan planned a move to a destination of 260 characters and skipped
\* a file whose destination has 261 as path-too-long
C14_Witness ==
  /\ pc = "idle" /\ organizer # NoOrganizer
  /\ \E k \in DOMAIN planned_moves :
       PathLen(planned_moves[k].destination) = 260
  /\ \E j \in DOMAIN skipped_files :
       /\ skipped_files[j].reason = PATH_TOO_LONG
       /\ IsFile(files, skipped_files[j].path)
       /\ PathLen(ScanDestination(skipped_files[j].path)) = 261

(***************************************************************************)
(* One file planned: get_file_date and get_destination_path as scan_files  *)
(* calls them, on a file with any of these names and times                 *)
(***************************************************************************)
PlanNames ==
  {Name("photo", ".jpg"), Name("notes", ".txt"), Name("NOTES", ".TXT"),
   Name("src.tar", ".gz"), Name("README", ""), Name("data", ".xyz")}

PlanTimes ==
  {Ts(1601, 1), Ts(MinYear - 1, 12), Ts(MinYear, 1), Ts(2024, 3),
   Ts(NowYear + 1, 12), Ts(NowYear + 2, 1)}

InitPlan ==
  /\ files = <<>> /\ dirs = {}
  /\ sort_mode \in SortMode
  /\ options = ScanOptions(FALSE, FALSE, FALSE, FALSE, FALSE)
  /\ organizer = [mode |-> sort_mode, options |-> options]
  /\ cancel_requested = FALSE
  /\ planned_moves = <<>> /\ planned_folder_moves = <<>> /\ skipped_files = <<>>
  /\ is_processing = TRUE
  /\ pc = "plan"
  /\ \E n \in PlanNames : \E ctime \in PlanTimes : \E mtime \in PlanTimes :
       work = [op |-> "plan", file_path |-> Child(source_folder, n),
               ctime |-> ctime, mtime |-> mtime,
               file_date |-> NoDate, dest_path |-> NoPath]
  /\ result = NewResult
  /\ backups = <<>>
  /\ clock = 0
  /\ platform \in Platforms
  /\ hist = NoHistory

\* file_date, date_valid = self.get_file_date(file_path);
\* dest_path = self.get_destination_path(file_path, file_date)
PlanFile ==
  /\ pc = "plan"
  /\ LET file_date == get_file_date(work.ctime, work.mtime)
     IN work' = [work EXCEPT
                   !.file_date = file_date,
                   !.dest_path = get_destination_path(organizer.mode,
                                                      work.file_path, file_date)]
  /\ pc' = "planned"
  /\ UNCHANGED <<platform, files, dirs, sort_mode, options, organizer,
                 cancel_requested, planned_moves, planned_folder_moves,
                 skipped_files, is_processing, result, backups, clock, hist>>

SpecPlan == InitPlan /\ [][PlanFile]_vars

InWindow(t) == YearOf(t) >= 1980 /\ YearOf(t) <= NowYear + 1

\* C15: the organizing date is the earlier of the creation and the
\* modification time when the year of that time lies in 1980 .. current
\* year + 1; otherwise it is the modification time when its year lies in
\* that window; otherwise it is invalid. A creation time of the year 1601
\* with a valid modification time gives the date of the modification time.
C15_DateFallback ==
  [][(pc = "plan" /\ pc' = "planned") =>
       LET earlier == Min(work.ctime, work.mtime)
       IN work'.file_date =
            IF InWindow(earlier) THEN DateOf(earlier)
            ELSE IF InWindow(work.mtime) THEN DateOf(work.mtime)
            ELSE NoDate]_vars

\* the segments of the destination, as texts
SegmentTexts(p) == [k \in 1..Len(p) |-> NameStr(p[k])]

TwoDigits(m) == IF m < 10 THEN "0" \o ToString(m) ELSE ToString(m)
EnglishMonths ==
  <<"January", "February", "March", "April", "May", "June", "July", "August",
    "September", "October", "November", "December">>
MonthFolder(m) == TwoDigits(m) \o "-" \o EnglishMonths[m]

\* C16: the destination is root/category/name by type,
\* root/year/month-folder/name by date and
\* root/category/year/month-folder/name by both; the month folder is the
\* two-digit number of the month, a dash and its name (01-January); with an
\* invalid date the year and the month segments are both "Unknown". By type
\* photo.jpg goes to Images/photo.jpg and notes.txt to Documents/notes.txt.
C16_DestinationFor ==
  [][(pc = "plan" /\ pc' = "planned") =>
       LET d == work'.file_date
           root == SegmentTexts(source_folder)
           name == NameStr(Last(work.file_path))
           category == get_category(Last(work.file_path))
           year == IF d.valid THEN ToString(d.year) ELSE "Unknown"
           month == IF d.valid THEN MonthFolder(d.month) ELSE "Unknown"
           dest == SegmentTexts(work'.dest_path)
       IN /\ organizer.mode = BY_TYPE => dest = root \o <<category, name>>
          /\ organizer.mode = BY_DATE => dest = root \o <<year, month, name>>
          /\ organizer.mode = BY_BOTH =>
               dest = root \o <<category, year, month, name>>
          /\ (organizer.mode = BY_TYPE /\ name = "photo.jpg") =>
               dest = root \o <<"Images", "photo.jpg">>
          /\ (organizer.mode = BY_TYPE /\ name = "notes.txt") =>
               dest = root \o <<"Documents", "notes.txt">>]_vars

\* photo.jpg of March 2024 planned by both
C16_Witness ==
  /\ pc = "planned"
  /\ organizer.mode = BY_BOTH
  /\ work.file_date = [valid |-> TRUE, year |-> 2024, month |-> 3]
  /\ SegmentTexts(work.dest_path) =
       <<"C:", "Downloads", "Images", "2024", "03-March", "photo.jpg">>

\* execute_moves has run the body of the file loop on the planned file
ExecFileStep == pc = "exec_file_body" /\ pc' # pc

ExecFolderStep == pc = "exec_folder_body" /\ pc' # pc

\* the batch has passed to the item after the one at hand
NextItem ==
  /\ ~result'.cancelled
  /\ work'.fi + work'.i = work.fi + work.i + 1
  /\ pc' = IF work'.fi <= Len(planned_folder_moves) THEN "exec_folders"
           ELSE IF work'.i <= Len(planned_moves) THEN "exec_files"
           ELSE "exec_finish"

\* one more error with its message, no skip
OneError ==
  /\ result'.errors = result.errors + 1
  /\ Len(result'.error_messages) = Len(result.error_messages) + 1
  /\ result'.skipped = result.skipped
  /\ result'.skipped_files = result.skipped_files

\* one more skip of the path for the reason, no error
OneSkip(path, reason) ==
  /\ result'.skipped = result.skipped + 1
  /\ result'.skipped_files =
       Append(result.skipped_files, [path |-> path, reason |-> reason])
  /\ result'.errors = result.errors
  /\ result'.error_messages = result.error_messages

\* C18: when the move of a file fails, a permission failure is recorded as
\* a skip with the reason permission-denied, an "in use" failure of the
\* operating system as a skip with the reason file-in-use, and any other
\* failure as an error with a message; when the move of a folder fails,
\* whatever the failure, it is recorded as an error with a message. Nothing
\* is moved, and the batch continues with the next item.
C18_ErrorClasses ==
  [][/\ (ExecFileStep /\ hist'.fault \in MoveFaults) =>
          LET move == planned_moves[work.i]
          IN /\ hist'.fault = "permission" =>
                  OneSkip(move.source, PERMISSION_DENIED)
             /\ hist'.fault = "in use" => OneSkip(move.source, FILE_IN_USE)
             /\ hist'.fault = "os error" => OneError
             /\ files' = files
             /\ result'.moved = result.moved
             /\ result'.move_log = result.move_log
             /\ NextItem
     /\ (ExecFolderStep /\ hist'.fault \in MoveFaults) =>
          /\ OneError
          /\ files' = files
          /\ result'.folders_moved = result.folders_moved
          /\ result'.folder_move_log = result.folder_move_log
          /\ NextItem]_vars

\* the move of the first planned file failed for want of permission and
\* was skipped, and the batch has gone on to move the second
C18_Witness ==
  /\ pc = "exec_finish" /\ ~result.cancelled
  /\ Len(planned_moves) = 2
  /\ result.skipped_files =
       <<[path |-> planned_moves[1].source, reason |-> PERMISSION_DENIED]>>
  /\ IsFile(files, planned_moves[1].source)
  /\ result.moved = 1
  /\ result.move_log[1][1] = planned_moves[2].source

(***************************************************************************)
(* A batch into a directory where report.pdf and its numbered names up to  *)
(* report_MaxAttempts.pdf are taken                                        *)
(***************************************************************************)
ReportSource == Child(source_folder, Name("report", ".pdf"))
OtherSource == Child(source_folder, Name("a", ".txt"))

\* Documents holds report.pdf, report_1.pdf .. report_MaxAttempts.pdf but
\* for the names of Free; report.pdf and a.txt lie in the source folder
FullTree(Free) ==
  [p \in {ReportNamed(N) : N \in (0..MaxAttempts) \ Free}
            \cup {ReportSource, OtherSource} |-> 1]

\* the application after a preview that planned the two files of the
\* source folder, in either order
InitFull ==
  /\ \E Free \in {{}, {MaxAttempts}} : files = FullTree(Free)
  /\ dirs = MkdirP({}, ReportDir)
  /\ platform \in Platforms
  /\ sort_mode = BY_TYPE
  /\ options = ScanOptions(FALSE, FALSE, FALSE, FALSE, FALSE)
  /\ organizer = [mode |-> sort_mode, options |-> options]
  /\ cancel_requested = FALSE
  /\ \E q \in {<<ReportSource, OtherSource>>, <<OtherSource, ReportSource>>} :
       planned_moves =
         ScanFile(organizer, files, q[2],
                  ScanFile(organizer, files, q[1], EmptyAcc)).moves
  /\ planned_folder_moves = <<>>
  /\ skipped_files = <<>>
  /\ is_processing = FALSE
  /\ pc = "idle"
  /\ work = NoWork
  /\ result = NewResult
  /\ backups = <<>>
  /\ clock = 0
  /\ hist = [NoHistory EXCEPT !.scan = "full", !.budget = 1]

\* the batch, which nobody cancels: _organize, the file loop of
\* execute_moves, the journal
NextFull ==
  \/ Organize \/ ExecBegin \/ ExecFileCheck \/ ExecFileBody \/ ExecFinish
  \/ OnOrganizeComplete \/ Tick

SpecFull == InitFull /\ [][NextFull]_vars

\* the planned destination for 0, the name with the suffix _N for N >= 1
Suffixed(dest_path, N) ==
  IF N = 0 THEN dest_path
  ELSE Child(Parent(dest_path),
             [Last(dest_path) EXCEPT !.stem = @ \o "_" \o ToString(N)])

\* the file at hand has passed the accessibility check and the move itself
\* meets no failure of the operating system
MoveAttempted ==
  /\ ExecFileStep
  /\ IsFile(files, planned_moves[work.i].source)
  /\ hist'.fault = "none"
  /\ check_file_accessibility(organizer.options, files,
                              planned_moves[work.i].source, FALSE, FALSE) = None

\* C19: when the planned destination of a file and all of its suffixed
\* names _1 .. _10000 are taken, the item becomes an error record: errors
\* goes up by one, a message is added, the file stays at its source and
\* nothing else changes, and the batch continues with the next item. While
\* the name _10000 is still free the file is moved there.
C19_CircuitBreaker ==
  [][MoveAttempted =>
       LET move == planned_moves[work.i]
           taken(N) == PathExists(files, dirs, Suffixed(move.destination, N))
       IN /\ (\A N \in 0..10000 : taken(N)) =>
               /\ OneError
               /\ files' = files
               /\ result'.moved = result.moved
               /\ result'.move_log = result.move_log
               /\ NextItem
          /\ ((\A N \in 0..9999 : taken(N)) /\ ~taken(10000)) =>
               /\ files' = MoveFile(files, move.source,
                                    Suffixed(move.destination, 10000))
               /\ result'.moved = result.moved + 1
               /\ result'.errors = result.errors]_vars

\* every name was taken: report.pdf, first of the plan, became an error and
\* stayed, and the batch went on to move a.txt
C19_Witness ==
  /\ pc = "exec_finish" /\ ~result.cancelled
  /\ planned_moves[1].source = ReportSource
  /\ result.errors = 1 /\ result.error_messages = <<"report.pdf">>
  /\ result.move_log = <<<<OtherSource, planned_moves[2].destination>>>>
  /\ IsFile(files, ReportSource)
  /\ \A N \in 0..10000 :
       IsFile(files, Suffixed(planned_moves[1].destination, N))

\* by type or by both, without flatten
TypeScan == organizer.mode \in {BY_TYPE, BY_BOTH} /\ ~organizer.options.flatten_folders

\* the subdirectories at the source root
RootSubdirs == {d \in dirs : Parent(d) = source_folder}
\* those not named like a folder of the organized structure
OtherRootSubdirs == {d \in RootSubdirs : ~is_organized_folder(Last(d))}

RootLevel(p) == Parent(p) = source_folder
AllRootLevel(moves) == \A k \in DOMAIN moves : RootLevel(moves[k].source)

\* the scan under way or complete reports folders and has only root-level
\* files as candidates and in its plan; so has the plan stored from a
\* complete scan of the tree as it is
RootOnlyScan ==
  /\ pc \in {"scan_folders", "scan_files"} =>
       /\ work.folders_detected
       /\ \A k \in DOMAIN work.q : RootLevel(work.q[k])
       /\ AllRootLevel(work.acc.moves)
  /\ pc = "scan_msg" => work.folders_detected /\ AllRootLevel(work.moves)
  /\ (pc \in {"idle", "exec_start"} /\ hist.scan = "full") =>
       AllRootLevel(planned_moves)

ScanPcs == {"scan_folders", "scan_files", "scan_msg"}

\* C20 as stated: by type or by both without flatten, whenever any
\* subdirectory exists at the source root the scan takes only root-level
\* files as candidates, plans no file beneath a subdirectory and returns
\* folders_detected = true.
C20_RootOnly_AsStated ==
  (organizer # NoOrganizer /\ TypeScan /\ RootSubdirs # {}
     /\ (pc \in ScanPcs \/ (pc \in {"idle", "exec_start"} /\ hist.scan = "full")))
    => RootOnlyScan

\* C20: by type or by both without flatten, whenever a subdirectory that
\* is not named like a folder of the organized structure (a category, a
\* four-digit year, a month folder, "Unknown") exists at the source root,
\* the scan takes only root-level files as candidates, plans no file
\* beneath a subdirectory and returns folders_detected = true.
C20_RootOnly ==
  (organizer # NoOrganizer /\ TypeScan /\ OtherRootSubdirs # {}
     /\ (pc \in ScanPcs \/ (pc \in {"idle", "exec_start"} /\ hist.scan = "full")))
    => RootOnlyScan

\* a scan by type or by both is complete on a tree with a file at the root
\* and one beneath sub: folders are reported, the root file alone is planned
C20_Witness ==
  /\ pc = "scan_msg" /\ TypeScan /\ ~work.cancelled
  /\ OtherRootSubdirs # {}
  /\ \E p \in DOMAIN files : ~RootLevel(p) /\ ~is_organized_folder(p[Len(source_folder) + 1])
  /\ work.folders_detected
  /\ work.moves # <<>> /\ AllRootLevel(work.moves)

\* both Keep folders intact and Flatten are checked
BothFolderOptions(opts) == opts.preserve_folders /\ opts.flatten_folders

\* the files below the source folder
FilesBelowRoot == {p \in DOMAIN files : IsInside(source_folder, p)}

\* the scan has dealt with the file as a candidate: it is planned, or
\* skipped, or was found where the mode wants it
DealtWith(p, moves, skipped) ==
  \/ \E k \in DOMAIN moves : moves[k].source = p
  \/ \E k \in DOMAIN skipped : skipped[k].path = p
  \/ is_in_organized_structure(organizer.mode, p)
  \/ ScanDestination(p) = p

EntryStays(j) ==
  LET destination == work.moves[j].destination
  IN IsFile(files, destination) =>
       IsFile(files', destination) /\ files'[destination] = files[destination]

\* every pair of the restore's log still names the place of the file
RestoredStay(fs, log) == \A k \in DOMAIN log : IsFile(fs, log[k][2])

\* C22: cancellation of a restore. The cancellation predicate is asked
\* before each journal entry; when it answers true the loop ends at once
\* with the result marked cancelled and nothing else changed: no further
\* entry is processed, the entries restored so far stay restored and the
\* files of the entries not reached stay at their organized locations, which
\* no earlier step of the restore had touched.
C22_RestoreCancel ==
  [][/\ (pc = "restore" /\ pc' = "restore_done" /\ work'.i = work.i
           /\ work.moves # <<>>) =>
          /\ result' = [result EXCEPT !.cancelled = TRUE]
          /\ files' = files /\ dirs' = dirs /\ work' = work
          /\ work.i <= Len(work.moves)
          /\ RestoredStay(files', result'.move_log)
     /\ (pc = "restore" /\ result'.cancelled) =>
          /\ pc' = "restore_done"
          /\ Counted(result') = work.i - 1
     /\ RestoreEntryStep =>
          /\ ~result'.cancelled
          /\ \A j \in (work.i + 1)..Len(work.moves) : EntryStays(j)
          /\ \A k \in DOMAIN result.move_log :
               IsFile(files, result.move_log[k][2]) =>
                 IsFile(files', result.move_log[k][2])
     /\ (pc = "restore_done" /\ result.cancelled) =>
          /\ pc' = "idle"
          /\ files' = files /\ dirs' = dirs /\ backups' = backups]_vars

\* a restore of two entries was cancelled after the first: one file is back,
\* the other is still at its organized location
C22_Witness ==
  /\ pc = "restore_done" /\ result.cancelled
  /\ Len(work.moves) = 2 /\ work.i = 2
  /\ result.moved = 1
  /\ IsFile(files, result.move_log[1][2])
  /\ IsFile(files, work.moves[2].destination)
  /\ ~IsFile(files, work.moves[2].original)

\* a worker has been dispatched: _run_in_thread has started _scan_worker or
\* _organize_worker
Dispatched == is_processing /\ pc \in {"scan_start", "exec_start"}

\* the completion message has been taken from the queue and handled
CompletionHandled == pc = "idle" /\ ~is_processing

\* C23: every worker that is dispatched, for a scan or for a batch, in the
\* end delivers its completion message, and once the message is handled the
\* processing flag is false again and the controls are enabled.
C23_WorkerCompletes == Dispatched ~> CompletionHandled

\* the step starts an operation: a scan worker, a batch worker or a restore
StartsOperation == pc' \in {"scan_start", "exec_start", "restore"} /\ pc' # pc

\* execute_moves of the dispatched batch has not returned, or its
\* completion message has not been handled
BatchRunning ==
  pc \in ExecPcs \cup {"exec_start", "exec_finish", "org_msg", "worker_raised"}

\* C24: at most one of scan, batch and restore is in progress. An operation
\* is started only while nothing is processing and sets the flag, the flag
\* stays set until the operation's completion has been handled, and from
\* the dispatch of a batch until its completion message is handled nobody
\* replaces or changes the planned-move lists or the organizer the worker
\* runs on.
C24_OneOperation ==
  /\ [](is_processing <=> pc # "idle")
  /\ [][/\ StartsOperation => (~is_processing /\ pc = "idle" /\ is_processing')
        /\ (is_processing /\ ~is_processing') =>
             pc \in {"scan_msg", "org_msg", "restore", "restore_done"}
        /\ (BatchRunning /\ pc # "org_msg") =>
             /\ planned_moves' = planned_moves
             /\ planned_folder_moves' = planned_folder_moves
             /\ organizer' = organizer
        /\ (BatchRunning /\ pc' # "idle") => BatchRunning']_vars

\* a batch dispatched after a preview is at its second file, the first moved
C24_Witness ==
  /\ pc = "exec_file_body" /\ is_processing
  /\ hist.previews = 1 /\ hist.batches = 1
  /\ work.i = 2 /\ result.moved = 1
  /\ Len(planned_moves) = 2

\* _execute_restore ends and the journal it restored from is deleted
JournalDeletedByRestore ==
  /\ pc \in {"restore", "restore_done"} /\ pc' = "idle"
  /\ work.backup \in DOMAIN backups /\ work.backup \notin DOMAIN backups'

\* every entry of the journal was restored
CleanRestore ==
  /\ result.moved = Len(work.moves)
  /\ result.skipped = 0 /\ result.errors = 0 /\ ~result.cancelled

\* C25: a restore deletes its journal only when it was clean, with every
\* entry restored, none skipped, no error and no cancellation; a restore
\* that left an entry unrestored keeps the journal.
C25_DeleteOnlyAfterClean ==
  [][JournalDeletedByRestore => CleanRestore]_vars

\* the items of the batch under way or begun when cancellation was requested
BegunAtRequest == hist.req.at + (IF hist.req.mid THEN 1 ELSE 0)

\* cancellation was requested after the batch was dispatched, at a moment
\* when an item of the plan was still to begin
RequestedBeforeAnItem == hist.req # NoRequest /\ BegunAtRequest < PlannedItems

ScanWorkerPcs == {"scan_start", "scan_folders", "scan_files"}

\* C26: a cancellation requested after the dispatch of a worker is not
\* lost, even before the worker's first item. A batch that had an item
\* still to begin when it was requested returns cancelled, having begun no
\* item after the request; a scan begins no item after the request and
\* reports cancelled = true.
C26_CancelNotLost ==
  /\ [](/\ (pc \in ExecPcs \cup {"exec_finish"} /\ RequestedBeforeAnItem) =>
             Attempted(result) <= BegunAtRequest
        /\ (pc \in {"exec_finish", "org_msg"} /\ RequestedBeforeAnItem) =>
             result.cancelled)
  /\ [][(pc \in ScanWorkerPcs /\ cancel_requested) =>
          /\ pc' \in ScanWorkerPcs =>
               /\ cancel_requested'
               /\ pc' \in {"scan_folders", "scan_files"} /\ pc = pc' =>
                    (work'.acc = work.acc /\ work'.folder_moves = work.folder_moves)
          /\ pc' = "scan_msg" => work'.cancelled]_vars

\* _organize dispatches a batch
BatchDispatched == pc = "idle" /\ pc' = "exec_start"

\* C27: a batch executes only a plan that is current. In a session without
\* a preview every plan comes from the scan _organize runs itself when it
\* has none: each batch dispatched, the first and any later one, executes
\* the plan of the scan its own Organize has just run, and nothing planned
\* before an earlier batch completed.
C27_NoStalePlan ==
  [][(BatchDispatched /\ hist.previews = 0) =>
       /\ hist'.scan = "full"
       /\ \E st \in ScanStarts(organizer', files, dirs) :
            /\ planned_folder_moves' = ScanFolders(files, st.fq, <<>>)
            /\ planned_moves' = ScanFiles(organizer', files, st.q, EmptyAcc).moves]_vars

\* the files of a tree, whatever their paths
FileSet(fs) == {fs[p] : p \in DOMAIN fs}

\* the final destinations of the two logs of a batch
FinalDestinations(res) ==
  [k \in 1..(Len(res.folder_move_log) + Len(res.move_log)) |->
     IF k <= Len(res.folder_move_log) THEN res.folder_move_log[k][2]
     ELSE res.move_log[k - Len(res.folder_move_log)][2]]

\* C28: execute_moves overwrites and deletes nothing. Each step of it keeps
\* every file, under a path each, and every file it does not move at its
\* path; an item that is moved goes to a path where nothing was immediately
\* before the move; the final destinations of the logs are pairwise
\* distinct, also when planned moves share one planned destination; and
\* the tree holds the same files, as many, at the end of a batch as at its
\* start.
C28_NoOverwrite ==
  /\ [](pc \in ExecPcs \cup {"exec_finish", "org_msg"} =>
          /\ \A j, k \in DOMAIN FinalDestinations(result) :
               j # k => FinalDestinations(result)[j] # FinalDestinations(result)[k]
          /\ Cardinality(DOMAIN files) = Cardinality(DOMAIN hist.start)
          /\ FileSet(files) = FileSet(hist.start))
  /\ [][ExecItemStep =>
          /\ Cardinality(DOMAIN files') = Cardinality(DOMAIN files)
          /\ FileSet(files') = FileSet(files)
          /\ Cardinality(dirs') >= Cardinality(dirs)
          /\ Len(result'.move_log) > Len(result.move_log) =>
               LET pair == result'.move_log[Len(result'.move_log)]
               IN /\ ~PathExists(files, dirs, pair[2])
                  /\ IsFile(files', pair[2]) /\ files'[pair[2]] = files[pair[1]]
                  /\ \A p \in DOMAIN files \ {pair[1]} :
                       IsFile(files', p) /\ files'[p] = files[p]
          /\ Len(result'.folder_move_log) > Len(result.folder_move_log) =>
               LET pair == result'.folder_move_log[Len(result'.folder_move_log)]
               IN /\ ~PathExists(files, dirs, pair[2])
                  /\ pair[2] \in dirs'
                  /\ \A p \in DOMAIN files :
                       IF IsPrefix(pair[1], p)
                       THEN files'[Rebase(p, pair[1], pair[2])] = files[p]
                       ELSE IsFile(files', p) /\ files'[p] = files[p]
          /\ (Len(result'.move_log) = Len(result.move_log)
                /\ Len(result'.folder_move_log) = Len(result.folder_move_log)) =>
               files' = files]_vars

\* two planned moves shared one planned destination; both files were moved,
\* the second under a numbered name
C28_Witness ==
  /\ pc = "exec_finish"
  /\ Len(planned_moves) = 2
  /\ planned_moves[1].destination = planned_moves[2].destination
  /\ Len(result.move_log) = 2
  /\ result.move_log[1][2] = planned_moves[1].destination
  /\ result.move_log[2][2] # result.move_log[1][2]
  /\ IsFile(files, result.move_log[1][2]) /\ IsFile(files, result.move_log[2][2])

\* the item at hand has ended as a skip or as an error
ItemSkippedOrFailed ==
  /\ ExecItemStep
  /\ result'.skipped + result'.errors = result.skipped + result.errors + 1

\* C29: an item that ends as a skip or as an error leaves the file system
\* as it was before the item was processed: the source is still at its
\* path, nothing is at the planned destination that was not there, and no
\* directory has been created.
C29_FailedItemNoEffect ==
  [][ItemSkippedOrFailed => (files' = files /\ dirs' = dirs)]_vars

\* the files a scan has entered in its two lists, in the order of the lists
Listed(moves, skipped) ==
  [k \in 1..(Len(moves) + Len(skipped)) |->
     IF k <= Len(moves) THEN moves[k].source ELSE skipped[k - Len(moves)].path]

\* no file is listed twice, and what is listed is a file of the tree
ListedOnce(moves, skipped) ==
  /\ \A j, k \in DOMAIN Listed(moves, skipped) :
       j # k => Listed(moves, skipped)[j] # Listed(moves, skipped)[k]
  /\ \A k \in DOMAIN Listed(moves, skipped) : IsFile(files, Listed(moves, skipped)[k])

\* C30: a scan is a dry run. No step of scan_files, up to its return and
\* whether or not it is cancelled, moves, creates or deletes a file or a
\* directory or writes a journal; and of the planned moves and the skipped
\* entries it returns no two name the same file, within a list or across.
C30_ScanDryRun ==
  /\ [](/\ pc \in {"scan_folders", "scan_files"} =>
             ListedOnce(work.acc.moves, work.acc.skipped)
        /\ pc = "scan_msg" => ListedOnce(work.moves, work.skipped))
  /\ [][/\ pc \in ScanWorkerPcs \cup {"scan_msg"} =>
             (files' = files /\ dirs' = dirs /\ backups' = backups)
        /\ (pc = "scan_msg" /\ pc' = "idle") =>
             /\ ListedOnce(planned_moves', skipped_files')
             /\ planned_moves' = work.moves /\ skipped_files' = work.skipped
        /\ (pc = "idle" /\ pc' = "idle" /\ hist'.scan = "full" /\ backups' = backups
              /\ clock' = clock) =>
             (files' = files /\ dirs' = dirs
                /\ ListedOnce(planned_moves', skipped_files'))]_vars

\* a scan that ran to its end planned one file and skipped another, and
\* both are where they were
C30_Witness ==
  /\ pc = "scan_msg" /\ ~work.cancelled
  /\ Len(work.moves) = 1 /\ Len(work.skipped) = 1
  /\ work.moves[1].source # work.skipped[1].path
  /\ IsFile(files, work.moves[1].source) /\ IsFile(files, work.skipped[1].path)
  /\ ~PathExists(files, dirs, work.moves[1].destination)

====
